---- MODULE Spec2Model ----
(***************************************************************************)
(* A model of the smart indentation and structural-scanning engine of      *)
(* Source::View (src/src/source.cc).  The text buffer is a sequence of     *)
(* one-character strings, an iterator is a 0-based character offset, and   *)
(* every handler is an operator from a view record to a view record, so    *)
(* that one action of the model is one whole handler call.                 *)
(***************************************************************************)
EXTENDS Integers, Sequences, FiniteSets, TLC

VARIABLES
  buf,       \* the text buffer: Seq of one-character strings
  ctx,       \* the highlighter's context class of every character of buf
  ins,       \* offset of the "insert" mark (the cursor)
  sel,       \* offset of the "selection_bound" mark
  tab_char,  \* Source::View::tab_char
  tab_size,  \* Source::View::tab_size
  lang,      \* language->get_id()
  tab_indents_line,  \* Config::get().source.tab_indents_line
  depth,     \* the buffer's user-action nesting count
  log,       \* buffer calls made by the last handler: begin/end/insert/erase
  hist,      \* the states the handlers were called in, oldest first
  res        \* the value returned by the last scanner or detector call

vars == <<buf, ctx, ins, sel, tab_char, tab_size, lang, tab_indents_line, depth,
          log, hist, res>>

\* ------------------------------------------------------------------ bounds
MaxSteps == 2
MaxToggleLen == 5
MaxScanLen == 4
MaxKeyLen == 3
MaxHandlerLen == 2
MaxProgLen == 6
MaxUnit == 4
MaxPasteLen == 2
MaxOpenLen == 4
MaxPairLen == 4
MaxStepLen == 3
MaxSearchLen == 4
MaxBracketLen == 3
MaxEntries == 2
MaxHistory == 3

\* -------------------------------------------------------------- characters
NL == "\n"
TAB == "\t"
SP == " "
NUL == ""        \* what *iter yields at the end iterator

Min(a, b) == IF a < b THEN a ELSE b
Max(a, b) == IF a > b THEN a ELSE b

IsBlank(c) == c = SP \/ c = TAB

\* All sequences over S of length at most n.
SeqsUpTo(S, n) == UNION {[1..k -> S] : k \in 0..n}

\* n copies of character c.
Rep(c, n) == [k \in 1..n |-> c]

RECURSIVE Flatten(_)
Flatten(ss) == IF ss = <<>> THEN <<>> ELSE Head(ss) \o Flatten(Tail(ss))

\* ------------------------------------------------- Gtk::TextIter, by offset
CharAt(b, i) == IF i >= 0 /\ i < Len(b) THEN b[i + 1] ELSE NUL
starts_line(b, i) == i = 0 \/ b[i] = NL
ends_line(b, i) == i >= Len(b) \/ b[i + 1] = NL
is_end(b, i) == i >= Len(b)

\* forward_char moves unless at the end, and returns whether the new position
\* is dereferenceable; backward_char moves and returns true unless at offset 0.
forward_pos(b, i) == IF i < Len(b) THEN i + 1 ELSE i
forward_ok(b, i) == i + 1 < Len(b)
backward_pos(i) == IF i > 0 THEN i - 1 ELSE 0
backward_ok(i) == i > 0
forward_chars_pos(b, i, n) == Min(i + n, Len(b))
backward_chars_pos(i, n) == Max(i - n, 0)
backward_chars_ok(i, n) == n # 0 /\ i > 0

get_line_nr(b, i) == Cardinality({k \in 1..Min(i, Len(b)) : b[k] = NL})
get_line_count(b) == get_line_nr(b, Len(b)) + 1
get_iter_at_line(b, n) ==
  IF n <= 0 THEN 0
  ELSE IF n >= get_line_count(b) THEN Len(b)
  ELSE CHOOSE i \in 1..Len(b) : b[i] = NL /\ get_line_nr(b, i) = n

RECURSIVE LineEndFrom(_, _)
LineEndFrom(b, i) == IF ends_line(b, i) THEN i ELSE LineEndFrom(b, i + 1)
get_iter_at_line_end(b, n) == LineEndFrom(b, get_iter_at_line(b, n))

get_text(b, from, to) == SubSeq(b, from + 1, to)

\* ------------------------------------------------------ the buffer's edits
\* A view record carries the buffer, its marks and the calls made so far.
View == [buf |-> buf, ctx |-> ctx, ins |-> ins, sel |-> sel,
         depth |-> depth, log |-> <<>>]

begin_user_action(v) == [v EXCEPT !.depth = @ + 1, !.log = Append(@, "begin")]
end_user_action(v) == [v EXCEPT !.depth = @ - 1, !.log = Append(@, "end")]

\* Both marks have right gravity: text inserted at a mark lands before it.
\* Inserted text carries no context class until the highlighter runs again.
Insert(v, pos, text) ==
  IF Len(text) = 0 THEN v
  ELSE [v EXCEPT
          !.buf = SubSeq(@, 1, pos) \o text \o SubSeq(@, pos + 1, Len(@)),
          !.ctx = SubSeq(@, 1, pos) \o [k \in 1..Len(text) |-> "plain"]
                    \o SubSeq(@, pos + 1, Len(@)),
          !.ins = IF @ >= pos THEN @ + Len(text) ELSE @,
          !.sel = IF @ >= pos THEN @ + Len(text) ELSE @,
          !.log = Append(@, "insert")]

MarkAfterErase(m, a, b) == IF m <= a THEN m ELSE IF m >= b THEN m - (b - a) ELSE a

Erase(v, p, q) ==
  LET a == Min(p, q)
      b == Max(p, q)
  IN IF a = b THEN v
     ELSE [v EXCEPT
             !.buf = SubSeq(@, 1, a) \o SubSeq(@, b + 1, Len(@)),
             !.ctx = SubSeq(@, 1, a) \o SubSeq(@, b + 1, Len(@)),
             !.ins = MarkAfterErase(@, a, b),
             !.sel = MarkAfterErase(@, a, b),
             !.log = Append(@, "erase")]

insert_at_cursor(v, text) == Insert(v, v.ins, text)
place_cursor(v, pos) == [v EXCEPT !.ins = pos, !.sel = pos]
move_insert(v, pos) == [v EXCEPT !.ins = pos]
get_has_selection(v) == v.ins # v.sel
selection_start(v) == Min(v.ins, v.sel)
selection_end(v) == Max(v.ins, v.sel)

\* ------------------------------------------------- line helpers of the view
RECURSIVE TabsEndFrom(_, _)
TabsEndFrom(b, i) ==
  IF IsBlank(CharAt(b, i)) /\ ~ends_line(b, i) /\ forward_ok(b, i)
    THEN TabsEndFrom(b, i + 1)
  ELSE IF IsBlank(CharAt(b, i)) /\ ~ends_line(b, i) THEN forward_pos(b, i)
  ELSE i
get_tabs_end_iter(b, line_nr) == TabsEndFrom(b, get_iter_at_line(b, line_nr))
get_tabs_end_iter_at(b, i) == get_tabs_end_iter(b, get_line_nr(b, i))

get_line_before(b, i) == get_text(b, get_iter_at_line(b, get_line_nr(b, i)), i)
get_line(b, line_nr) ==
  get_text(b, get_iter_at_line(b, line_nr), get_iter_at_line_end(b, line_nr))

\* tab: tab_size copies of tab_char (set_tab_char_and_size).
tab == Rep(tab_char, tab_size)

is_bracket_language ==
  lang \in {"chdr", "cpphdr", "c", "cpp", "objc", "java", "js", "ts", "proto",
            "c-sharp", "html", "cuda", "php", "rust", "swift", "go", "scala",
            "opencl"}

\* ---------------------------------------------------------- toggle_comments
comment_characters ==
  IF is_bracket_language THEN <<"/", "/">>
  ELSE IF lang \in {"cmake", "makefile", "python", "python3", "sh", "perl",
                    "ruby", "r", "asm", "automake"} THEN <<"#">>
  ELSE IF lang \in {"latex", "matlab", "octave", "bibtex"} THEN <<"%">>
  ELSE IF lang = "fortran" THEN <<"!">>
  ELSE IF lang = "pascal" THEN <<"/", "/">>
  ELSE IF lang = "lua" THEN <<"-", "-">>
  ELSE <<>>

\* The last line of the range: a selection ending at a line start leaves that
\* line out.
toggle_line_end(b, s_start, s_end) ==
  LET line_start == get_line_nr(b, s_start)
      line_end == get_line_nr(b, s_end)
  IN IF line_start # line_end /\ starts_line(b, s_end) THEN line_end - 1
     ELSE line_end

RECURSIVE toggle_indent_end(_, _)
toggle_indent_end(b, i) ==
  IF ends_line(b, i) THEN i
  ELSE IF IsBlank(CharAt(b, i)) THEN toggle_indent_end(b, forward_pos(b, i))
  ELSE i

\* The loop over the comment characters, from character c (0-based) on.
RECURSIVE toggle_match(_, _, _, _)
toggle_match(b, i, cc, c) ==
  IF c >= Len(cc) \/ ends_line(b, i) THEN [commented |-> FALSE, extra |-> FALSE]
  ELSE IF CharAt(b, i) = cc[c + 1]
    THEN IF c < Len(cc) - 1 THEN toggle_match(b, forward_pos(b, i), cc, c + 1)
         ELSE [commented |-> TRUE, extra |-> CharAt(b, forward_pos(b, i)) = SP]
  ELSE [commented |-> FALSE, extra |-> FALSE]

\* A scan that counts every line of the range, those of blanks too.
toggle_line_CountBlank(b, line, cc) ==
  LET start == get_iter_at_line(b, line)
      e == toggle_indent_end(b, start)
      m == toggle_match(b, e, cc, 0)
  IN [added |-> TRUE, indentation |-> e - start,
      commented |-> ~ends_line(b, e) /\ m.commented,
      extra |-> ~ends_line(b, e) /\ m.extra]

toggle_line(b, line, cc) ==
  LET start == get_iter_at_line(b, line)
      e == toggle_indent_end(b, start)
      m == toggle_match(b, e, cc, 0)
  IN [added |-> ~ends_line(b, e), indentation |-> e - start,
      commented |-> ~ends_line(b, e) /\ m.commented,
      extra |-> ~ends_line(b, e) /\ m.extra]

\* What the first loop of toggle_comments gathers over the line range.
toggle_scan(b, s_start, s_end, cc) ==
  LET line_start == get_line_nr(b, s_start)
      line_end == toggle_line_end(b, s_start, s_end)
      added == {l \in line_start..line_end : toggle_line(b, l, cc).added}
  IN [lines |-> added,
      lines_commented |-> \A l \in added : toggle_line(b, l, cc).commented,
      extra_spaces |-> \A l \in added : toggle_line(b, l, cc).extra,
      min_indentation |->
        IF added = {} THEN -1
        ELSE CHOOSE n \in {toggle_line(b, l, cc).indentation : l \in added} :
               \A l \in added : n <= toggle_line(b, l, cc).indentation]

\* Erasing without the extra space leaves it behind.
toggle_erase_len_NoExtraSpace(cc, extra_spaces) == Len(cc)
\* The number of characters the removal erases after the indentation.
toggle_erase_len(cc, extra_spaces) == Len(cc) + (IF extra_spaces THEN 1 ELSE 0)

\* while(*iter==' ' || *iter=='\t') { iter.forward_char(); end_iter.forward_char(); }
RECURSIVE toggle_erase_range(_, _, _)
toggle_erase_range(b, i, e) ==
  IF IsBlank(CharAt(b, i)) THEN toggle_erase_range(b, forward_pos(b, i), forward_pos(b, e))
  ELSE <<i, e>>

toggle_apply_line(v, line, sc, cc) ==
  LET iter == forward_chars_pos(v.buf, get_iter_at_line(v.buf, line), sc.min_indentation)
  IN IF sc.lines_commented
       THEN LET r == toggle_erase_range(v.buf, iter,
                       forward_chars_pos(v.buf, iter, toggle_erase_len(cc, sc.extra_spaces)))
            IN Erase(v, r[1], r[2])
     ELSE Insert(v, iter, cc \o <<SP>>)

\* for(auto &line: lines), in ascending order, from line l on.
RECURSIVE toggle_apply(_, _, _, _, _)
toggle_apply(v, l, last, sc, cc) ==
  IF l > last THEN v
  ELSE toggle_apply(IF l \in sc.lines THEN toggle_apply_line(v, l, sc, cc) ELSE v,
                    l + 1, last, sc, cc)

toggle_comments(v, cc) ==
  LET sc == toggle_scan(v.buf, selection_start(v), selection_end(v), cc)
  IN IF sc.lines = {} THEN v
     ELSE end_user_action(
            toggle_apply(begin_user_action(v), get_line_nr(v.buf, selection_start(v)),
                         get_line_nr(v.buf, selection_end(v)), sc, cc))


\* ----------------------------------------------------- structural scanner
\* iter_has_context_class(iter, "comment") || (iter, "string")
in_comment_or_string(c, i) ==
  i >= 0 /\ i < Len(c) /\ c[i + 1] \in {"comment", "string"}

\* A single quote toggles the ignore flag unless a backslash that is not
\* itself escaped precedes it; the iterators before it stop at offset 0.
quote_toggles(b, i) ==
  \/ CharAt(b, backward_pos(i)) # "\\"
  \/ CharAt(b, backward_pos(backward_pos(i))) = "\\"

\* The counters and the ignore flag after the character at i was examined.
paren_step(b, c, i, st) ==
  IF in_comment_or_string(c, i) THEN st
  ELSE IF CharAt(b, i) = "'"
    THEN IF quote_toggles(b, i) THEN [st EXCEPT !.ignore = ~@] ELSE st
  ELSE IF st.ignore THEN st
  ELSE IF CharAt(b, i) = ")" THEN [st EXCEPT !.count1 = @ + 1]
  ELSE IF CharAt(b, i) = "]" THEN [st EXCEPT !.count2 = @ + 1]
  ELSE IF CharAt(b, i) = "(" THEN [st EXCEPT !.count1 = @ - 1]
  ELSE IF CharAt(b, i) = "[" THEN [st EXCEPT !.count2 = @ - 1]
  ELSE st

paren_init == [count1 |-> 0, count2 |-> 0, ignore |-> FALSE]

\* A skip that goes to the cursor whatever lies between.
fsce_skip_tabs_ToCursor(b, i, insert, tc) == insert

\* while(iter!=insert_iter && *iter==tab_char && iter.forward_char()) {}
RECURSIVE fsce_skip_tabs(_, _, _, _)
fsce_skip_tabs(b, i, insert, tc) ==
  IF i # insert /\ CharAt(b, i) = tc
    THEN IF forward_ok(b, i) THEN fsce_skip_tabs(b, i + 1, insert, tc)
         ELSE forward_pos(b, i)
  ELSE i

\* A line start closes the expression when one counter is still positive.
fsce_closed_OnlyParens(st) == st.count1 <= 0
fsce_closed(st) == st.count1 <= 0 /\ st.count2 <= 0

RECURSIVE fsce_loop(_, _, _, _, _, _)
fsce_loop(b, c, i, st0, insert, tc) ==
  LET st == paren_step(b, c, i, st0)
  IN IF starts_line(b, i) /\ fsce_closed(st)
       THEN [found |-> TRUE, pos |-> fsce_skip_tabs(b, i, insert, tc)]
     ELSE IF backward_ok(i) THEN fsce_loop(b, c, i - 1, st, insert, tc)
     ELSE [found |-> FALSE, pos |-> 0]

find_start_of_closed_expression(b, c, i, insert, tc) ==
  fsce_loop(b, c, i, paren_init, insert, tc)


\* --------------------------------------------------- find_tab_char_and_size
Abs(n) == IF n < 0 THEN -n ELSE n

\* !(*prev_iter=='\\' && *prev_prev_iter!='\\')
quote_unescaped(b, i) ==
  ~(CharAt(b, backward_pos(i)) = "\\"
      /\ CharAt(b, backward_pos(backward_pos(i))) # "\\")

\* The last non-blank character of the line from i on, up to the first '('.
RECURSIVE last_line_char(_, _, _)
last_line_char(b, i, last) ==
  IF is_end(b, i) \/ ends_line(b, i) THEN last
  ELSE LET l == IF IsBlank(CharAt(b, i)) THEN last ELSE CharAt(b, i)
       IN IF CharAt(b, i) = "(" THEN l ELSE last_line_char(b, i + 1, l)

detect_init ==
  [spaces |-> 0, tabs |-> 0, sizes |-> <<>>, tab_count |-> -1,
   last_tab_count |-> 0, single_quoted |-> FALSE, double_quoted |-> FALSE,
   line_comment |-> FALSE, comment |-> FALSE, bracket_last_line |-> FALSE,
   last_char |-> NUL, last_tab_diff |-> -1, para_count |-> 0]

\* if(iter.starts_line()) { ... } of the bracket-language loop
bracket_line_start(b, i, d) ==
  IF starts_line(b, i)
    THEN [d EXCEPT !.line_comment = FALSE, !.single_quoted = FALSE,
                   !.double_quoted = FALSE, !.tab_count = 0,
                   !.bracket_last_line = (d.last_char = "{")]
  ELSE d

\* A first line of a block that is neither blank, a label nor a directive.
bracket_tally_NoAbs(d) ==
  [d EXCEPT !.sizes = IF d.tab_count # d.last_tab_count
                        THEN Append(@, d.tab_count) ELSE @,
            !.last_tab_diff = Abs(d.tab_count - d.last_tab_count),
            !.last_tab_count = d.tab_count,
            !.last_char = NUL]
bracket_tally(d) ==
  [d EXCEPT !.sizes = IF d.tab_count # d.last_tab_count
                        THEN Append(@, Abs(d.tab_count - d.last_tab_count)) ELSE @,
            !.last_tab_diff = Abs(d.tab_count - d.last_tab_count),
            !.last_tab_count = d.tab_count,
            !.last_char = NUL]

\* The quote and comment flags after the character at i; a closing */ moves
\* the iterator two characters on.
bracket_flags(b, i, d) ==
  IF ~d.double_quoted /\ CharAt(b, i) = "'" /\ quote_unescaped(b, i)
    THEN [i |-> i, d |-> [d EXCEPT !.single_quoted = ~@]]
  ELSE IF ~d.single_quoted /\ CharAt(b, i) = "\"" /\ quote_unescaped(b, i)
    THEN [i |-> i, d |-> [d EXCEPT !.double_quoted = ~@]]
  ELSE IF ~d.single_quoted /\ ~d.double_quoted
    THEN IF CharAt(b, i) = "/" /\ CharAt(b, forward_pos(b, i)) = "/"
           THEN [i |-> i, d |-> [d EXCEPT !.line_comment = TRUE]]
         ELSE IF CharAt(b, i) = "/" /\ CharAt(b, forward_pos(b, i)) = "*"
           THEN [i |-> i, d |-> [d EXCEPT !.comment = TRUE]]
         ELSE IF CharAt(b, i) = "*" /\ CharAt(b, forward_pos(b, i)) = "/"
           THEN [i |-> forward_pos(b, forward_pos(b, i)),
                 d |-> [d EXCEPT !.comment = FALSE]]
         ELSE [i |-> i, d |-> d]
  ELSE [i |-> i, d |-> d]

in_code(d) ==
  ~d.single_quoted /\ ~d.double_quoted /\ ~d.comment /\ ~d.line_comment

\* The end of the loop body, from the quote handling to iter.forward_char().
bracket_tail(b, i0, d0) ==
  LET f == bracket_flags(b, i0, d0)
      i == f.i
      d1 == IF in_code(f.d) /\ ~IsBlank(CharAt(b, i)) /\ ~ends_line(b, i)
              THEN [f.d EXCEPT !.last_char = CharAt(b, i)] ELSE f.d
      d2 == IF in_code(d1) /\ CharAt(b, i) = "}" /\ d1.tab_count # -1
                 /\ d1.last_tab_diff # -1
              THEN [d1 EXCEPT !.last_tab_count = @ - d1.last_tab_diff] ELSE d1
      d3 == IF ~IsBlank(CharAt(b, i)) THEN [d2 EXCEPT !.tab_count = -1] ELSE d2
  IN [i |-> forward_pos(b, i), d |-> d3]

\* One pass of the body of the bracket-language loop: the iterator and the
\* tallies at the next test of while(iter).
bracket_body(b, i, d0) ==
  LET d == bracket_line_start(b, i, d0)
  IN IF d.bracket_last_line /\ d.tab_count # -1
       THEN IF CharAt(b, i) = SP
              THEN bracket_tail(b, i, [d EXCEPT !.spaces = @ + 1,
                                                !.tab_count = @ + 1])
            ELSE IF CharAt(b, i) = TAB
              THEN bracket_tail(b, i, [d EXCEPT !.tabs = @ + 1,
                                                !.tab_count = @ + 1])
            ELSE IF last_line_char(b, i, NUL) = ":" \/ CharAt(b, i) = "#"
              THEN IF get_line_nr(b, i) + 1 < get_line_count(b)
                     THEN [i |-> get_iter_at_line(b, get_line_nr(b, i) + 1),
                           d |-> [d EXCEPT !.tab_count = 0]]
                   ELSE bracket_tail(b, i, [d EXCEPT !.tab_count = 0])
            ELSE IF ~ends_line(b, i) THEN bracket_tail(b, i, bracket_tally(d))
            ELSE bracket_tail(b, i, d)
     ELSE bracket_tail(b, i, d)

RECURSIVE bracket_loop(_, _, _)
bracket_loop(b, i, d0) ==
  IF is_end(b, i) THEN d0
  ELSE LET t == bracket_body(b, i, d0) IN bracket_loop(b, t.i, t.d)

\* One pass of the body of the loop for the other languages.
plain_body(b, i, d0) ==
  LET d1 == IF starts_line(b, i) THEN [d0 EXCEPT !.tab_count = 0] ELSE d0
      d2 == IF d1.tab_count # -1 /\ d1.para_count = 0
                 /\ ~d1.single_quoted /\ ~d1.double_quoted
              THEN IF CharAt(b, i) = SP
                     THEN [d1 EXCEPT !.spaces = @ + 1, !.tab_count = @ + 1]
                   ELSE IF CharAt(b, i) = TAB
                     THEN [d1 EXCEPT !.tabs = @ + 1, !.tab_count = @ + 1]
                   ELSE IF ~ends_line(b, i)
                     THEN [d1 EXCEPT
                             !.sizes = IF d1.tab_count # d1.last_tab_count
                                         THEN Append(@, Abs(d1.tab_count - d1.last_tab_count))
                                       ELSE @,
                             !.last_tab_count = d1.tab_count]
                   ELSE d1
            ELSE d1
      d3 == IF ~d2.double_quoted /\ CharAt(b, i) = "'" /\ quote_unescaped(b, i)
              THEN [d2 EXCEPT !.single_quoted = ~@]
            ELSE IF ~d2.single_quoted /\ CharAt(b, i) = "\"" /\ quote_unescaped(b, i)
              THEN [d2 EXCEPT !.double_quoted = ~@]
            ELSE IF ~d2.single_quoted /\ ~d2.double_quoted
              THEN IF CharAt(b, i) = "(" THEN [d2 EXCEPT !.para_count = @ + 1]
                   ELSE IF CharAt(b, i) = ")" THEN [d2 EXCEPT !.para_count = @ - 1]
                   ELSE d2
            ELSE d2
      d4 == IF ~IsBlank(CharAt(b, i)) THEN [d3 EXCEPT !.tab_count = -1] ELSE d3
  IN [i |-> forward_pos(b, i), d |-> d4]

RECURSIVE plain_loop(_, _, _)
plain_loop(b, i, d0) ==
  IF is_end(b, i) THEN d0
  ELSE LET t == plain_body(b, i, d0) IN plain_loop(b, t.i, t.d)

Occurrences(sizes, w) == Cardinality({k \in 1..Len(sizes) : sizes[k] = w})

\* The two final loops run over unordered_maps, whose iteration order is not
\* specified: among entries of equal highest count either may be returned.
found_tab_chars(d) ==
  IF d.spaces = 0 /\ d.tabs = 0 THEN {NUL}
  ELSE {c \in {SP, TAB} :
          /\ (IF c = SP THEN d.spaces ELSE d.tabs) > 0
          /\ (IF c = SP THEN d.spaces ELSE d.tabs)
               >= (IF c = SP THEN d.tabs ELSE d.spaces)}

found_tab_sizes(d) ==
  IF d.sizes = <<>> THEN {0}
  ELSE {d.sizes[k] : k \in {j \in 1..Len(d.sizes) :
          \A m \in 1..Len(d.sizes) :
            Occurrences(d.sizes, d.sizes[j]) >= Occurrences(d.sizes, d.sizes[m])}}

find_tab_char_and_size(b, bracket, html) ==
  LET d == IF bracket /\ ~html THEN bracket_loop(b, 0, detect_init)
           ELSE plain_loop(b, 0, detect_init)
  IN {[char |-> c, size |-> w] : c \in found_tab_chars(d), w \in found_tab_sizes(d)}


\* -------------------------------------------------------------------- paste
CR == "\r"

\* Carriage returns, alone or before a newline, become newlines.
RECURSIVE paste_normalize(_)
paste_normalize(text) ==
  IF text = <<>> THEN <<>>
  ELSE IF Head(text) = CR
    THEN IF Len(text) > 1 /\ text[2] = NL
           THEN <<NL>> \o paste_normalize(SubSeq(text, 3, Len(text)))
         ELSE <<NL>> \o paste_normalize(Tail(text))
  ELSE <<Head(text)>> \o paste_normalize(Tail(text))

\* The lines both loops visit, from character c (0-based) on: a line ends at
\* a newline or with the last character of the text.
RECURSIVE paste_lines(_, _, _)
paste_lines(text, c, start_line) ==
  IF c >= Len(text) THEN <<>>
  ELSE IF text[c + 1] = NL
    THEN <<SubSeq(text, start_line + 1, c)>> \o paste_lines(text, c + 1, c + 1)
  ELSE IF c = Len(text) - 1 THEN <<SubSeq(text, start_line + 1, c + 1)>>
  ELSE paste_lines(text, c + 1, start_line)

RECURSIVE leading_tabs(_, _)
leading_tabs(line, tc) ==
  IF line # <<>> /\ Head(line) = tc THEN 1 + leading_tabs(Tail(line), tc) ELSE 0

\* The first loop: paste_line_tabs (-1 stands for size_t(-1)) and
\* first_paste_line_has_tabs.
RECURSIVE paste_measure(_, _, _, _)
paste_measure(lines, k, tc, m) ==
  IF k > Len(lines) THEN m
  ELSE LET tabs == leading_tabs(lines[k], tc)
           empty_line == tabs = Len(lines[k])
       IN paste_measure(lines, k + 1, tc,
            IF k = 1
              THEN IF tabs # 0 THEN [paste_line_tabs |-> tabs, has_tabs |-> TRUE] ELSE m
            ELSE IF ~empty_line
              THEN [m EXCEPT !.paste_line_tabs =
                      IF @ = -1 THEN tabs ELSE Min(@, tabs)]
            ELSE m)

\* A paste that strips nothing from the lines after the first.
paste_strip_Nothing(first, has_tabs, line_tabs, paste_line_tabs) == 0
\* The number of leading characters dropped from a pasted line.
paste_strip(first, has_tabs, line_tabs, paste_line_tabs) ==
  IF ~(first /\ ~has_tabs) /\ line_tabs < paste_line_tabs THEN line_tabs
  ELSE paste_line_tabs

RECURSIVE paste_insert(_, _, _, _, _, _)
paste_insert(v, lines, k, tc, m, prefix_tabs) ==
  IF k > Len(lines) THEN v
  ELSE LET line == lines[k]
           tabs == paste_strip(k = 1, m.has_tabs, leading_tabs(line, tc),
                               m.paste_line_tabs)
           rest == SubSeq(line, tabs + 1, Len(line))
       IN paste_insert(
            IF k = 1 THEN insert_at_cursor(v, IF m.has_tabs THEN rest ELSE line)
            ELSE insert_at_cursor(v, <<NL>> \o prefix_tabs \o rest),
            lines, k + 1, tc, m, prefix_tabs)

paste(v, clipboard, tc) ==
  LET text == paste_normalize(clipboard)
      tabs_end_iter == get_tabs_end_iter_at(v.buf, v.ins)
  IN IF ~get_has_selection(v) /\ ends_line(v.buf, tabs_end_iter)
       THEN LET prefix_tabs == get_line_before(v.buf, tabs_end_iter)
                lines == paste_lines(text, 0, 0)
                m0 == paste_measure(lines, 1, tc,
                                    [paste_line_tabs |-> -1, has_tabs |-> FALSE])
                m == IF m0.paste_line_tabs = -1
                       THEN [m0 EXCEPT !.paste_line_tabs = 0] ELSE m0
                v1 == paste_insert(begin_user_action(v), lines, 1, tc, m, prefix_tabs)
            IN end_user_action(place_cursor(v1, v1.ins))
     \* Gtk::TextBuffer::paste_clipboard: the selection is replaced by the text
     \* in a user action of the buffer's own.
     ELSE end_user_action(
            insert_at_cursor(
              Erase(begin_user_action(v), selection_start(v), selection_end(v)),
              text))


\* ------------------------------------------- cleanup_whitespace_characters
RECURSIVE cleanup_back(_, _)
cleanup_back(b, i) ==
  IF ~starts_line(b, i) /\ (IsBlank(CharAt(b, i)) \/ ends_line(b, i))
    THEN cleanup_back(b, backward_pos(i))
  ELSE i

cleanup_line(v, line) ==
  LET iter == get_iter_at_line(v.buf, line)
      end_iter == get_iter_at_line_end(v.buf, line)
      back == cleanup_back(v.buf, end_iter)
      from == IF ~IsBlank(CharAt(v.buf, back)) THEN forward_pos(v.buf, back) ELSE back
  IN IF iter = end_iter \/ from = end_iter THEN v ELSE Erase(v, from, end_iter)

RECURSIVE cleanup_lines(_, _)
cleanup_lines(v, line) ==
  IF line < get_line_count(v.buf) THEN cleanup_lines(cleanup_line(v, line), line + 1)
  ELSE v

cleanup_whitespace_characters(v0) ==
  LET v == cleanup_lines(begin_user_action(v0), 0)
  IN end_user_action(IF ~starts_line(v.buf, Len(v.buf))
                       THEN Insert(v, Len(v.buf), <<NL>>) ELSE v)

\* ------------------------------------------------------------------- keys
\* A key press: GdkEventKey's keyval and the two modifier bits the handlers
\* read.  No dialog is shown and the previous key was not a dead key.
Key(k) == [keyval |-> k, shift |-> FALSE, ctrl |-> FALSE]
ShiftKey(k) == [keyval |-> k, shift |-> TRUE, ctrl |-> FALSE]
CtrlKey(k) == [keyval |-> k, shift |-> FALSE, ctrl |-> TRUE]

\* The keyvals gdk_keyval_to_unicode maps to a character >= 32 other than 127;
\* Return, Tab, BackSpace, Delete and the cursor keys are not among them.
PrintableKeyvals == {"{", "}", ":", ";", "(", ")", "x", SP}

\* Gsv::View::on_key_press_event, the toolkit's handler, for the keys that
\* reach it: the edit is made in a user action of the widget's own.
default_key_press(v, key) ==
  IF key.keyval \notin {"Return", "BackSpace", "Delete"} THEN v
  ELSE
    LET v1 == begin_user_action(v)
        v2 == IF get_has_selection(v1)
                THEN Erase(v1, selection_start(v1), selection_end(v1))
              ELSE IF key.keyval = "BackSpace"
                THEN Erase(v1, backward_pos(v1.ins), v1.ins)
              ELSE IF key.keyval = "Delete"
                THEN Erase(v1, v1.ins, forward_pos(v1.buf, v1.ins))
              ELSE v1
    IN end_user_action(IF key.keyval = "Return" THEN insert_at_cursor(v2, <<NL>>)
                       ELSE v2)

\* while((*end_blank_iter==' ' || *end_blank_iter=='\t') &&
\*       !end_blank_iter.ends_line() && end_blank_iter.forward_char()) {}
RECURSIVE blank_end(_, _)
blank_end(b, i) ==
  IF IsBlank(CharAt(b, i)) /\ ~ends_line(b, i)
    THEN IF forward_ok(b, i) THEN blank_end(b, forward_pos(b, i))
         ELSE forward_pos(b, i)
  ELSE i

RECURSIVE basic_blank_start(_, _)
basic_blank_start(b, i) ==
  IF IsBlank(CharAt(b, i)) /\ ~starts_line(b, i) /\ backward_ok(i)
    THEN basic_blank_start(b, backward_pos(i))
  ELSE i

\* An Enter that looks at the next line from any column.
basic_enter_AnyColumn(v) ==
  LET iter == v.ins
      end_blank_iter == blank_end(v.buf, iter)
      start_blank_iter == basic_blank_start(v.buf, backward_pos(iter))
      v1 == IF starts_line(v.buf, start_blank_iter)
                 /\ IsBlank(CharAt(v.buf, start_blank_iter))
              THEN Erase(v, iter, end_blank_iter)
            ELSE Erase(v, forward_pos(v.buf, start_blank_iter), end_blank_iter)
      line_nr == get_line_nr(v1.buf, v1.ins)
      line_tabs == get_line_before(v1.buf, get_tabs_end_iter_at(v1.buf, v1.ins))
      next_line_tabs ==
        get_line_before(v1.buf, get_tabs_end_iter(v1.buf, line_nr + 1))
  IN IF line_nr + 1 < get_line_count(v1.buf)
          /\ Len(next_line_tabs) > Len(line_tabs)
       THEN end_user_action(insert_at_cursor(v1, <<NL>> \o next_line_tabs))
     ELSE end_user_action(insert_at_cursor(v1, <<NL>> \o line_tabs))

\* An Enter that copies no indentation.
basic_enter_NewlineOnly(v) == end_user_action(insert_at_cursor(v, <<NL>>))

basic_enter(v) ==
  LET iter == v.ins
      end_blank_iter == blank_end(v.buf, iter)
      start_blank_iter == basic_blank_start(v.buf, backward_pos(iter))
      v1 == IF starts_line(v.buf, start_blank_iter)
                 /\ IsBlank(CharAt(v.buf, start_blank_iter))
              THEN Erase(v, iter, end_blank_iter)
            ELSE Erase(v, forward_pos(v.buf, start_blank_iter), end_blank_iter)
      line_nr == get_line_nr(v1.buf, v1.ins)
      line_tabs == get_line_before(v1.buf, get_tabs_end_iter_at(v1.buf, v1.ins))
      next_line_tabs ==
        get_line_before(v1.buf, get_tabs_end_iter(v1.buf, line_nr + 1))
  IN IF line_nr + 1 < get_line_count(v1.buf) /\ ends_line(v1.buf, v1.ins)
          /\ Len(next_line_tabs) > Len(line_tabs)
       THEN end_user_action(insert_at_cursor(v1, <<NL>> \o next_line_tabs))
     ELSE end_user_action(insert_at_cursor(v1, <<NL>> \o line_tabs))

\* while(prev_line_iter.starts_line() && prev_line_iter.backward_char()) {}
RECURSIVE tab_prev_line(_, _)
tab_prev_line(b, i) ==
  IF starts_line(b, i) /\ backward_ok(i) THEN tab_prev_line(b, backward_pos(i))
  ELSE i

\* while(next_line_iter.starts_line() && next_line_iter.forward_char()) {}
RECURSIVE tab_next_line(_, _)
tab_next_line(b, i) ==
  IF starts_line(b, i)
    THEN IF forward_ok(b, i) THEN tab_next_line(b, forward_pos(b, i))
         ELSE forward_pos(b, i)
  ELSE i

\* line_it!=selection_end is evaluated with the selection_end fetched before
\* the loop; edits to earlier lines leave its line and line offset as they were.
line_skipped(v0, v, line) ==
  /\ get_has_selection(v)
  /\ line = get_line_nr(v0.buf, selection_end(v0))
  /\ starts_line(v0.buf, selection_end(v0))

RECURSIVE tab_lines(_, _, _, _)
tab_lines(v0, v, line, line_end) ==
  IF line > line_end THEN v
  ELSE tab_lines(v0,
         IF line_skipped(v0, v, line) THEN v
         ELSE Insert(v, get_iter_at_line(v.buf, line), tab),
         line + 1, line_end)

\* A Tab without the special case of the empty line.
basic_tab_UnitOnly(v) ==
  IF ~tab_indents_line /\ ~get_has_selection(v)
    THEN end_user_action(insert_at_cursor(v, tab))
  ELSE end_user_action(
         tab_lines(v, v, get_line_nr(v.buf, selection_start(v)),
                   get_line_nr(v.buf, selection_end(v))))

basic_tab(v) ==
  LET iter == v.ins
      previous_line_tabs ==
        get_line_before(v.buf, get_tabs_end_iter_at(v.buf, tab_prev_line(v.buf, iter)))
      next_line_tabs ==
        get_line_before(v.buf, get_tabs_end_iter_at(v.buf, tab_next_line(v.buf, iter)))
      tabs == IF Len(previous_line_tabs) < Len(next_line_tabs)
                THEN previous_line_tabs ELSE next_line_tabs
  IN IF ~tab_indents_line /\ ~get_has_selection(v)
       THEN end_user_action(insert_at_cursor(v, tab))
     ELSE IF starts_line(v.buf, iter) /\ ends_line(v.buf, iter)
               /\ ~get_has_selection(v) /\ Len(tabs) >= tab_size
       THEN end_user_action(insert_at_cursor(v, tabs))
     ELSE end_user_action(
            tab_lines(v, v, get_line_nr(v.buf, selection_start(v)),
                      get_line_nr(v.buf, selection_end(v))))

\* A first loop that passes over a line of text without leading whitespace.
RECURSIVE shift_tab_steps_NoAbort(_, _, _, _)
shift_tab_steps_NoAbort(v, line_nr, line_end, steps) ==
  IF line_nr > line_end THEN steps
  ELSE LET line_tabs == get_line_before(v.buf, get_tabs_end_iter(v.buf, line_nr))
       IN shift_tab_steps_NoAbort(v, line_nr + 1, line_end,
            IF ~line_skipped(v, v, line_nr) /\ Len(line_tabs) > 0
              THEN Min(steps, Len(line_tabs)) ELSE steps)

\* The first loop of Shift-Tab from line_nr on: indent_left_steps, or -1 when
\* the loop returns early at a line with text and no leading whitespace.
RECURSIVE shift_tab_steps(_, _, _, _)
shift_tab_steps(v, line_nr, line_end, steps) ==
  IF line_nr > line_end THEN steps
  ELSE IF line_skipped(v, v, line_nr) THEN shift_tab_steps(v, line_nr + 1, line_end, steps)
  ELSE LET tabs_end_iter == get_tabs_end_iter(v.buf, line_nr)
           line_tabs == get_line_before(v.buf, tabs_end_iter)
       IN IF starts_line(v.buf, tabs_end_iter) /\ ends_line(v.buf, tabs_end_iter)
            THEN shift_tab_steps(v, line_nr + 1, line_end, steps)
          ELSE IF Len(line_tabs) > 0
            THEN shift_tab_steps(v, line_nr + 1, line_end, Min(steps, Len(line_tabs)))
          ELSE -1

\* An ignore_line that is set for every line that holds nothing but blanks.
shift_tab_ignore_line_Blank(v0, line_nr) ==
  ends_line(v0.buf, get_tabs_end_iter(v0.buf, line_nr))

\* ignore_line as the first loop filled it, read when the second loop runs.
shift_tab_ignore_line(v0, line_nr) ==
  LET tabs_end_iter == get_tabs_end_iter(v0.buf, line_nr)
  IN starts_line(v0.buf, tabs_end_iter) /\ ends_line(v0.buf, tabs_end_iter)

\* A second loop that erases a whole unit from every line.
RECURSIVE shift_tab_erase_WholeUnit(_, _, _, _, _)
shift_tab_erase_WholeUnit(v0, v, line_nr, line_end, steps) ==
  IF line_nr > line_end THEN v
  ELSE LET line_it == get_iter_at_line(v.buf, line_nr)
       IN shift_tab_erase_WholeUnit(v0,
            IF ~line_skipped(v0, v, line_nr) /\ ~shift_tab_ignore_line(v0, line_nr)
              THEN Erase(v, line_it, forward_chars_pos(v.buf, line_it, tab_size))
            ELSE v,
            line_nr + 1, line_end, steps)

RECURSIVE shift_tab_erase(_, _, _, _, _)
shift_tab_erase(v0, v, line_nr, line_end, steps) ==
  IF line_nr > line_end THEN v
  ELSE LET line_it == get_iter_at_line(v.buf, line_nr)
       IN shift_tab_erase(v0,
            IF ~line_skipped(v0, v, line_nr) /\ ~shift_tab_ignore_line(v0, line_nr)
              THEN Erase(v, line_it, forward_chars_pos(v.buf, line_it, steps))
            ELSE v,
            line_nr + 1, line_end, steps)

\* A Shift-Tab whose early return leaves the user action open.
basic_shift_tab_OpenOnReturn(v) ==
  LET line_start == get_line_nr(v.buf, selection_start(v))
      line_end == get_line_nr(v.buf, selection_end(v))
      steps == shift_tab_steps(v, line_start, line_end, tab_size)
  IN IF steps = -1 THEN v
     ELSE end_user_action(shift_tab_erase(v, v, line_start, line_end, steps))
basic_shift_tab(v) ==
  LET line_start == get_line_nr(v.buf, selection_start(v))
      line_end == get_line_nr(v.buf, selection_end(v))
      steps == shift_tab_steps(v, line_start, line_end, tab_size)
  IN IF steps = -1 THEN end_user_action(v)
     ELSE end_user_action(shift_tab_erase(v, v, line_start, line_end, steps))

\* A backspace that takes one character of the run.
smart_backspace_OneChar(v) ==
  IF \A k \in 1..Len(get_line_before(v.buf, v.ins)) :
       IsBlank(get_line_before(v.buf, v.ins)[k])
    THEN Erase(v, v.ins, backward_pos(v.ins))
  ELSE v
\* "Smart" backspace: the blank run between the line's start and the cursor.
smart_backspace(v) ==
  LET line == get_line_before(v.buf, v.ins)
      do_smart_backspace == \A k \in 1..Len(line) : IsBlank(line[k])
  IN IF do_smart_backspace /\ backward_chars_ok(v.ins, Len(line))
       THEN Erase(v, v.ins, backward_chars_pos(v.ins, Len(line)))
     ELSE v

\* The do-while of the "smart" delete: whether only blanks lie between the
\* cursor and a line end that is not the buffer's end, and where it stopped.
RECURSIVE smart_delete_scan(_, _)
smart_delete_scan(b, i) ==
  IF ~IsBlank(CharAt(b, i)) /\ ~ends_line(b, i) THEN [smart |-> FALSE, iter |-> i]
  ELSE IF ends_line(b, i) THEN [smart |-> forward_ok(b, i), iter |-> forward_pos(b, i)]
  ELSE IF forward_ok(b, i) THEN smart_delete_scan(b, forward_pos(b, i))
  ELSE [smart |-> TRUE, iter |-> forward_pos(b, i)]

\* while((*iter==' ' || *iter=='\t') && iter.forward_char()) {}
RECURSIVE smart_delete_skip(_, _)
smart_delete_skip(b, i) ==
  IF IsBlank(CharAt(b, i))
    THEN IF forward_ok(b, i) THEN smart_delete_skip(b, forward_pos(b, i))
         ELSE forward_pos(b, i)
  ELSE i

smart_delete(v) ==
  LET insert_iter == v.ins
      r == smart_delete_scan(v.buf, insert_iter)
      iter == IF ~starts_line(v.buf, insert_iter)
                THEN smart_delete_skip(v.buf, r.iter) ELSE r.iter
  IN IF r.smart /\ backward_ok(iter) THEN Erase(v, insert_iter, backward_pos(iter))
     ELSE v

\* The loop of the "smart" end key, backward from the line's end.
RECURSIVE end_sentence_back(_, _)
end_sentence_back(b, i) ==
  IF ~starts_line(b, i) /\ (IsBlank(CharAt(b, i)) \/ ends_line(b, i)) /\ backward_ok(i)
    THEN end_sentence_back(b, backward_pos(i))
  ELSE i

\* An end key that goes to the end of the text first.
smart_end_TextFirst(v, key) ==
  LET iter == v.ins
      end_line_iter == get_iter_at_line_end(v.buf, get_line_nr(v.buf, iter))
      back == end_sentence_back(v.buf, end_line_iter)
      end_sentence_iter == IF ~ends_line(v.buf, back) /\ ~starts_line(v.buf, back)
                             THEN forward_pos(v.buf, back) ELSE back
      target == IF iter = end_sentence_iter THEN end_line_iter ELSE end_sentence_iter
  IN end_user_action(IF key.shift THEN move_insert(v, target)
                     ELSE place_cursor(v, target))
smart_end(v, key) ==
  LET iter == v.ins
      end_line_iter == get_iter_at_line_end(v.buf, get_line_nr(v.buf, iter))
      back == end_sentence_back(v.buf, end_line_iter)
      end_sentence_iter == IF ~ends_line(v.buf, back) /\ ~starts_line(v.buf, back)
                             THEN forward_pos(v.buf, back) ELSE back
      target == IF iter = end_line_iter THEN end_sentence_iter ELSE end_line_iter
  IN end_user_action(IF key.shift THEN move_insert(v, target)
                     ELSE place_cursor(v, target))

\* The loop of the "smart" home key, forward from the line's start.
RECURSIVE start_sentence_forward(_, _)
start_sentence_forward(b, i) ==
  IF ~ends_line(b, i) /\ IsBlank(CharAt(b, i))
    THEN IF forward_ok(b, i) THEN start_sentence_forward(b, forward_pos(b, i))
         ELSE forward_pos(b, i)
  ELSE i

\* A home key that goes to the text from every other column.
smart_home_FromAnywhere(v, key) ==
  LET iter == v.ins
      start_line_iter == get_iter_at_line(v.buf, get_line_nr(v.buf, iter))
      start_sentence_iter == start_sentence_forward(v.buf, start_line_iter)
      target == IF iter # start_sentence_iter
                  THEN start_sentence_iter ELSE start_line_iter
  IN end_user_action(IF key.shift THEN move_insert(v, target)
                     ELSE place_cursor(v, target))

smart_home(v, key) ==
  LET iter == v.ins
      start_line_iter == get_iter_at_line(v.buf, get_line_nr(v.buf, iter))
      start_sentence_iter == start_sentence_forward(v.buf, start_line_iter)
      target == IF iter > start_sentence_iter \/ iter = start_line_iter
                  THEN start_sentence_iter ELSE start_line_iter
  IN end_user_action(IF key.shift THEN move_insert(v, target)
                     ELSE place_cursor(v, target))

\* The end of the basic handler: the typed character is inserted here, every
\* other key is passed to the toolkit's handler.
basic_tail(v, key) ==
  IF ~key.ctrl /\ key.keyval \in PrintableKeyvals
    THEN end_user_action(
           insert_at_cursor(
             IF get_has_selection(v)
               THEN Erase(v, selection_start(v), selection_end(v)) ELSE v,
             <<key.keyval>>))
  ELSE end_user_action(default_key_press(v, key))

on_key_press_event_basic(v0, key) ==
  LET v == begin_user_action(v0)
  IN IF key.keyval = "Return" /\ ~get_has_selection(v) /\ ~starts_line(v.buf, v.ins)
       THEN basic_enter(v)
     ELSE IF key.keyval = "Tab" /\ ~key.shift THEN basic_tab(v)
     ELSE IF key.keyval \in {"ISO_Left_Tab", "Tab"} /\ key.shift THEN basic_shift_tab(v)
     ELSE IF key.keyval = "BackSpace" /\ ~get_has_selection(v)
       THEN basic_tail(smart_backspace(v), key)
     ELSE IF key.keyval = "Delete" /\ ~get_has_selection(v)
       THEN basic_tail(smart_delete(v), key)
     ELSE IF key.keyval = "End" /\ ~key.ctrl THEN smart_end(v, key)
     ELSE IF key.keyval = "Home" /\ ~key.ctrl THEN smart_home(v, key)
     ELSE basic_tail(v, key)

\* --------------------------------------------------- the three regexes
LeadingBlanks(line) ==
  SubSeq(line, 1, Cardinality({k \in 1..Len(line) :
                                 \A j \in 1..k : IsBlank(line[j])}))

StartsWithAt(line, k, word) ==
  k + Len(word) - 1 <= Len(line) /\ SubSeq(line, k, k + Len(word) - 1) = word

\* The first index from k on that holds no space, Len(line)+1 if none.
RECURSIVE SkipSpaces(_, _)
SkipSpaces(line, k) ==
  IF k <= Len(line) /\ line[k] = SP THEN SkipSpaces(line, k + 1) ELSE k

\* ^([ \t]*).*\{ *$
bracket_regex(line) ==
  \E k \in 1..Len(line) : line[k] = "{" /\ \A j \in k + 1..Len(line) : line[j] = SP

StatementWords ==
  {<<"i", "f">>, <<"f", "o", "r">>, <<"e", "l", "s", "e", " ", "i", "f">>,
   <<"w", "h", "i", "l", "e">>}

\* ^([ \t]*)(if|for|else if|while) *\(.*[^;}] *$
no_bracket_statement_regex(line) ==
  \E word \in StatementWords :
    LET k == Len(LeadingBlanks(line)) + 1
        p == SkipSpaces(line, k + Len(word))
    IN /\ StartsWithAt(line, k, word)
       /\ p <= Len(line)
       /\ line[p] = "("
       /\ Len(line) > p
       /\ line[Len(line)] \notin {";", "}"}

\* ^([ \t]*)(else) *$
no_bracket_no_para_statement_regex(line) ==
  LET k == Len(LeadingBlanks(line)) + 1
  IN /\ StartsWithAt(line, k, <<"e", "l", "s", "e">>)
     /\ SkipSpaces(line, k + 4) = Len(line) + 1

\* ------------------------------------------------------- bracket searches
\* if(*before_iter!='\\' || *before_before_iter=='\\') ignore=!ignore;
quote_flips(b, i) ==
  CharAt(b, backward_pos(i)) # "\\"
    \/ CharAt(b, backward_pos(backward_pos(i))) = "\\"

RECURSIVE find_open_expression_symbol_loop(_, _, _, _, _)
find_open_expression_symbol_loop(b, c, i, until_iter, st) ==
  IF i = until_iter \/ ~backward_ok(i) THEN [found |-> FALSE, pos |-> i]
  ELSE
    LET iter == backward_pos(i)
        ch == CharAt(b, iter)
        st1 == IF in_comment_or_string(c, iter) THEN st
               ELSE IF ch = "'"
                 THEN IF quote_flips(b, iter) THEN [st EXCEPT !.ignore = ~@] ELSE st
               ELSE IF st.ignore THEN st
               ELSE IF ch = ")" THEN [st EXCEPT !.count1 = @ + 1]
               ELSE IF ch = "]" THEN [st EXCEPT !.count2 = @ + 1]
               ELSE IF ch = "(" THEN [st EXCEPT !.count1 = @ - 1]
               ELSE IF ch = "[" THEN [st EXCEPT !.count2 = @ - 1]
               ELSE st
    IN IF ~in_comment_or_string(c, iter) /\ (st1.count1 < 0 \/ st1.count2 < 0)
         THEN [found |-> TRUE, pos |-> iter]
       ELSE find_open_expression_symbol_loop(b, c, iter, until_iter, st1)

\* A search that runs on to the start of the document.
find_open_expression_symbol_ToStart(b, c, iter, until_iter) ==
  find_open_expression_symbol_loop(b, c, iter, 0, paren_init)

find_open_expression_symbol(b, c, iter, until_iter) ==
  find_open_expression_symbol_loop(b, c, iter, until_iter, paren_init)

\* One character of a brace search: the brace that counts up is `up`, the one
\* looked for is `down`.
brace_step(b, c, iter, st, up, down) ==
  IF in_comment_or_string(c, iter) THEN [st EXCEPT !.found = FALSE]
  ELSE IF CharAt(b, iter) = "'"
    THEN IF quote_flips(b, iter) THEN [st EXCEPT !.ignore = ~@] ELSE st
  ELSE IF st.ignore THEN st
  ELSE IF CharAt(b, iter) = down
    THEN IF st.count = 0 THEN [st EXCEPT !.found = TRUE]
         ELSE [st EXCEPT !.count = @ - 1]
  ELSE IF CharAt(b, iter) = up THEN [st EXCEPT !.count = @ + 1]
  ELSE st

brace_init == [count |-> 0, ignore |-> FALSE, found |-> FALSE]

RECURSIVE find_right_bracket_forward_loop(_, _, _, _)
find_right_bracket_forward_loop(b, c, i, st) ==
  IF ~forward_ok(b, i) THEN [found |-> FALSE, pos |-> i]
  ELSE LET iter == forward_pos(b, i)
           st1 == brace_step(b, c, iter, st, "{", "}")
       IN IF st1.found THEN [found |-> TRUE, pos |-> iter]
          ELSE find_right_bracket_forward_loop(b, c, iter, st1)

\* A forward search that takes the first `}` whatever the nesting.
find_right_bracket_forward_FirstBrace(b, c, iter) ==
  IF \E q \in iter + 1..Len(b) - 1 : CharAt(b, q) = "}"
    THEN [found |-> TRUE,
          pos |-> CHOOSE q \in iter + 1..Len(b) - 1 :
                    CharAt(b, q) = "}" /\ \A k \in iter + 1..q - 1 : CharAt(b, k) # "}"]
  ELSE [found |-> FALSE, pos |-> iter]

find_right_bracket_forward(b, c, iter) ==
  find_right_bracket_forward_loop(b, c, iter, brace_init)

RECURSIVE find_left_bracket_backward_loop(_, _, _, _)
find_left_bracket_backward_loop(b, c, i, st) ==
  IF ~backward_ok(i) THEN [found |-> FALSE, pos |-> i]
  ELSE LET iter == backward_pos(i)
           st1 == brace_step(b, c, iter, st, "}", "{")
       IN IF st1.found THEN [found |-> TRUE, pos |-> iter]
          ELSE find_left_bracket_backward_loop(b, c, iter, st1)

find_left_bracket_backward(b, c, iter) ==
  find_left_bracket_backward_loop(b, c, iter, brace_init)

WordChars ==
  {"a", "b", "c", "d", "e", "f", "g", "h", "i", "j", "k", "l", "m", "n", "o",
   "p", "q", "r", "s", "t", "u", "v", "w", "x", "y", "z",
   "A", "B", "C", "D", "E", "F", "G", "H", "I", "J", "K", "L", "M", "N", "O",
   "P", "Q", "R", "S", "T", "U", "V", "W", "X", "Y", "Z",
   "0", "1", "2", "3", "4", "5", "6", "7", "8", "9", "_"}

RECURSIVE token_start(_, _, _)
token_start(b, i, start) ==
  IF CharAt(b, i) \in WordChars
    THEN IF backward_ok(i) THEN token_start(b, backward_pos(i), i) ELSE i
  ELSE start

RECURSIVE token_end(_, _)
token_end(b, i) ==
  IF CharAt(b, i) \in WordChars
    THEN IF forward_ok(b, i) THEN token_end(b, forward_pos(b, i))
         ELSE forward_pos(b, i)
  ELSE i

get_token(b, iter) == get_text(b, token_start(b, iter, iter), token_end(b, iter))

\* ------------------------------------- on_key_press_event_bracket_language
\* What a branch of the bracket handler hands back: the view, and whether the
\* branch returned or fell through to the end of the handler.
Returned(v) == [done |-> TRUE, v |-> v]
FellThrough(v) == [done |-> FALSE, v |-> v]

RECURSIVE bracket_blank_start(_, _)
bracket_blank_start(b, i) ==
  IF (IsBlank(CharAt(b, i)) \/ ends_line(b, i)) /\ ~starts_line(b, i) /\ backward_ok(i)
    THEN bracket_blank_start(b, backward_pos(i))
  ELSE i

\* First remove spaces or tabs around cursor.
bracket_enter_erase(v) ==
  LET iter == v.ins
      end_blank_iter == blank_end(v.buf, iter)
      start_blank_iter == bracket_blank_start(v.buf, backward_pos(iter))
  IN IF ~starts_line(v.buf, start_blank_iter)
       THEN Erase(v, forward_pos(v.buf, start_blank_iter), end_blank_iter)
     ELSE Erase(v, iter, end_blank_iter)

\* A block opened without the extra unit on its empty line.
brace_pair_text_NoUnit(tabs) == <<NL>> \o tabs \o <<NL>> \o tabs
\* The text put between `{` and `}`.
brace_pair_text(tabs) == <<NL>> \o tabs \o tab \o <<NL>> \o tabs

\* insert_it.backward_chars(n); place_cursor(insert_it) if it moved.
cursor_back(v, n) ==
  IF backward_chars_ok(v.ins, n) THEN place_cursor(v, backward_chars_pos(v.ins, n))
  ELSE v

\* while(!iter.starts_line() && iter.backward_char()) {}
RECURSIVE line_start_back(_, _)
line_start_back(b, i) ==
  IF ~starts_line(b, i) /\ backward_ok(i) THEN line_start_back(b, backward_pos(i))
  ELSE i

\* The closing brace chosen by the token at the start of the statement alone.
add_semicolon_StatementTokenOnly(v, start_of_sentence_iter) ==
  /\ lang \in {"chdr", "cpphdr", "c", "cpp"}
  /\ get_token(v.buf, start_of_sentence_iter)
       \in {<<"c", "l", "a", "s", "s">>, <<"s", "t", "r", "u", "c", "t">>}

add_semicolon(v, start_of_sentence_iter) ==
  /\ lang \in {"chdr", "cpphdr", "c", "cpp"}
  /\ LET token == get_token(v.buf, start_of_sentence_iter)
         iter == line_start_back(v.buf, start_of_sentence_iter)
         s == find_start_of_closed_expression(v.buf, v.ctx, backward_pos(iter),
                                              v.ins, tab_char)
         token2 == IF token = <<>> /\ backward_ok(iter) /\ s.found
                     THEN get_token(v.buf, s.pos) ELSE token
     IN token2 \in {<<"c", "l", "a", "s", "s">>, <<"s", "t", "r", "u", "c", "t">>}

\* Enter with `{` before the cursor.
bracket_enter_brace(v, start_of_sentence_iter, tabs) ==
  LET iter == backward_pos(v.ins)
      r == find_right_bracket_forward(v.buf, v.ctx, iter)
      has_bracket ==
        /\ r.found
        /\ Len(tabs) = Len(get_line_before(v.buf, get_tabs_end_iter_at(v.buf, r.pos)))
      semi == add_semicolon(v, start_of_sentence_iter)
  IN IF CharAt(v.buf, v.ins) = "}"
       THEN end_user_action(
              cursor_back(insert_at_cursor(v, brace_pair_text(tabs)), Len(tabs) + 1))
     ELSE IF ~has_bracket
       THEN end_user_action(
              cursor_back(
                insert_at_cursor(v, brace_pair_text(tabs)
                                      \o (IF semi THEN <<"}", ";">> ELSE <<"}">>)),
                Len(tabs) + (IF semi THEN 3 ELSE 2)))
     ELSE end_user_action(insert_at_cursor(v, <<NL>> \o tabs \o tab))

\* Enter with `;` before the cursor: the view before the final insert, or the
\* view the branch returned with.
bracket_enter_semicolon(v, tabs) ==
  LET line_nr == get_line_nr(v.buf, v.ins)
      previous_line == get_line(v.buf, line_nr - 1)
  IN IF line_nr > 0 /\ Len(tabs) >= tab_size /\ ~bracket_regex(previous_line)
          /\ (no_bracket_statement_regex(previous_line)
                \/ no_bracket_no_para_statement_regex(previous_line))
       THEN Returned(end_user_action(
              insert_at_cursor(v, <<NL>> \o LeadingBlanks(previous_line))))
     ELSE FellThrough(v)

\* Enter with `:` before the cursor, where iter is the position of the `:`.
bracket_enter_colon(v, iter, tabs) ==
  LET l == find_left_bracket_backward(v.buf, v.ctx, iter)
      left_bracket_iter == IF ~ends_line(v.buf, l.pos) THEN forward_pos(v.buf, l.pos)
                           ELSE l.pos
      s == find_start_of_closed_expression(v.buf, v.ctx, left_bracket_iter, v.ins,
                                           tab_char)
      tabs_start_of_sentence ==
        get_line_before(v.buf, get_tabs_end_iter_at(v.buf, s.pos))
      start_line_iter == get_iter_at_line(v.buf, get_line_nr(v.buf, iter))
  IN IF l.found /\ s.found
       THEN IF Len(tabs) = Len(tabs_start_of_sentence) + tab_size
              THEN FellThrough(Erase(v, start_line_iter,
                                     forward_chars_pos(v.buf, start_line_iter, tab_size)))
            ELSE Returned(end_user_action(insert_at_cursor(v, <<NL>> \o tabs \o tab)))
     ELSE FellThrough(v)

\* Enter that looks for a statement without braces before it looks for an
\* open expression.
bracket_enter_statement_KeywordFirst(v, start_of_sentence_iter, tabs0) ==
  LET line == get_line_before(v.buf, v.ins)
      o == find_open_expression_symbol(v.buf, v.ctx, v.ins, start_of_sentence_iter)
      tabs_end_iter == get_tabs_end_iter_at(v.buf, o.pos)
      open_tabs == get_line_before(v.buf, tabs_end_iter)
                     \o Rep(SP, Max(0, o.pos - tabs_end_iter + 1))
  IN IF no_bracket_statement_regex(line) \/ no_bracket_no_para_statement_regex(line)
       THEN end_user_action(insert_at_cursor(v, <<NL>> \o tabs0 \o tab))
     ELSE end_user_action(insert_at_cursor(v, <<NL>> \o (IF o.found THEN open_tabs
                                                          ELSE tabs0)))

\* Enter once the start of the expression is known and no `{` is before the
\* cursor.
bracket_enter_statement(v, start_of_sentence_iter, tabs0) ==
  LET line == get_line_before(v.buf, v.ins)
      iter == v.ins
      o == find_open_expression_symbol(v.buf, v.ctx, iter, start_of_sentence_iter)
      tabs_end_iter == get_tabs_end_iter_at(v.buf, o.pos)
      open_tabs == get_line_before(v.buf, tabs_end_iter)
                     \o Rep(SP, Max(0, o.pos - tabs_end_iter + 1))
      r == IF o.found THEN FellThrough(v)
           ELSE IF no_bracket_statement_regex(line)
                     \/ no_bracket_no_para_statement_regex(line)
             THEN Returned(end_user_action(insert_at_cursor(v, <<NL>> \o tabs0 \o tab)))
           ELSE IF backward_ok(iter) /\ CharAt(v.buf, backward_pos(iter)) = ";"
             THEN bracket_enter_semicolon(v, tabs0)
           ELSE IF CharAt(v.buf, backward_pos(iter)) = ":"
             THEN bracket_enter_colon(v, backward_pos(iter), tabs0)
           ELSE FellThrough(v)
      tabs == IF o.found THEN open_tabs ELSE tabs0
  IN IF r.done THEN r.v
     ELSE end_user_action(insert_at_cursor(r.v, <<NL>> \o tabs))

bracket_enter(v0) ==
  LET v == bracket_enter_erase(v0)
      iter == v.ins
      s == find_start_of_closed_expression(v.buf, v.ctx, iter, v.ins, tab_char)
      tabs == get_line_before(v.buf, get_tabs_end_iter_at(v.buf, s.pos))
  IN IF ~s.found THEN FellThrough(v)
     ELSE IF backward_ok(iter) /\ CharAt(v.buf, backward_pos(iter)) = "{"
       THEN Returned(bracket_enter_brace(v, s.pos, tabs))
     ELSE Returned(bracket_enter_statement(v, s.pos, tabs))

\* A `}` that is inserted where the cursor is.
bracket_braceright_InsertOnly(v) == end_user_action(insert_at_cursor(v, <<"}">>))

\* Indent left when writing } on a new line.
bracket_braceright(v) ==
  LET line == get_line_before(v.buf, v.ins)
      line_it == get_iter_at_line(v.buf, get_line_nr(v.buf, v.ins))
  IN IF Len(line) >= tab_size /\ \A k \in 1..Len(line) : line[k] = tab_char
       THEN end_user_action(
              insert_at_cursor(
                Erase(v, line_it, forward_chars_pos(v.buf, line_it, tab_size)),
                <<"}">>))
     ELSE end_user_action(insert_at_cursor(v, <<"}">>))

\* A `{` that never takes the extra unit away.
bracket_braceleft_KeepUnit(v) == FellThrough(v)

\* Indent left when writing { on a new line after for instance if(...)\n...
bracket_braceleft(v) ==
  LET iter == v.ins
      tabs_end_iter == get_tabs_end_iter_at(v.buf, iter)
      tabs == get_line_before(v.buf, tabs_end_iter)
      line_nr == get_line_nr(v.buf, iter)
      previous_line == get_line(v.buf, line_nr - 1)
  IN IF /\ line_nr > 0
        /\ Len(tabs) >= tab_size
        /\ iter = tabs_end_iter
        /\ ~bracket_regex(previous_line)
        /\ (no_bracket_statement_regex(previous_line)
              \/ no_bracket_no_para_statement_regex(previous_line))
        /\ Len(tabs) - tab_size = Len(LeadingBlanks(previous_line))
       THEN Returned(end_user_action(
              insert_at_cursor(Erase(v, backward_chars_pos(iter, tab_size), iter),
                               <<"{">>)))
     ELSE FellThrough(v)

on_key_press_event_bracket_language(v0, key) ==
  LET v == begin_user_action(v0)
      r == IF key.keyval = "Return" /\ ~starts_line(v.buf, v.ins) THEN bracket_enter(v)
           ELSE IF key.keyval = "}" THEN Returned(bracket_braceright(v))
           ELSE IF key.keyval = "{" THEN bracket_braceleft(v)
           ELSE FellThrough(v)
  IN IF r.done THEN r.v
     ELSE on_key_press_event_basic(end_user_action(r.v), key)

\* ------------------------------------------------------ on_key_press_event
\* The loop of Ctrl+Down, forward to the end of the next paragraph.
RECURSIVE paragraph_down(_, _, _, _)
paragraph_down(b, i, empty_line, text_found) ==
  IF is_end(b, i) THEN i
  ELSE LET text == ~ends_line(b, i) /\ ~IsBlank(CharAt(b, i))
           e == (empty_line \/ starts_line(b, i)) /\ ~text
           t == text_found \/ text
       IN IF e /\ t /\ ends_line(b, i) THEN i
          ELSE paragraph_down(b, forward_pos(b, i), e, t)

\* The loop of Ctrl+Up, backward to the start of the paragraph.
RECURSIVE paragraph_up(_, _, _, _)
paragraph_up(b, i, empty_line, text_found) ==
  IF is_end(b, i) \/ i = 0 THEN [iter |-> i, empty_line |-> empty_line]
  ELSE LET text == ~ends_line(b, i) /\ ~IsBlank(CharAt(b, i))
           e == (empty_line \/ ends_line(b, i)) /\ ~text
           t == text_found \/ text
       IN IF e /\ t /\ starts_line(b, i) THEN [iter |-> i, empty_line |-> e]
          ELSE paragraph_up(b, backward_pos(i), e, t)

move_paragraph(v0, key) ==
  LET v == begin_user_action(v0)
      line_iter == get_iter_at_line(v.buf, get_line_nr(v.buf, v.ins))
      down == get_iter_at_line(v.buf,
                get_line_nr(v.buf, paragraph_down(v.buf, line_iter, FALSE, FALSE)))
      u == paragraph_up(v.buf, backward_pos(line_iter), FALSE, FALSE)
      up == IF u.empty_line
              THEN forward_pos(v.buf,
                     get_iter_at_line_end(v.buf, get_line_nr(v.buf, u.iter)))
            ELSE u.iter
      iter == IF key.keyval = "Down" THEN down ELSE up
  IN end_user_action(IF key.shift THEN move_insert(v, iter) ELSE place_cursor(v, iter))

\* A dispatcher that does not look at the context before the cursor.
on_key_press_event_AnyContext(v, key) ==
  IF key.keyval \in {"Down", "Up"} /\ key.ctrl THEN move_paragraph(v, key)
  ELSE IF get_has_selection(v) THEN on_key_press_event_basic(v, key)
  ELSE IF is_bracket_language THEN on_key_press_event_bracket_language(v, key)
  ELSE on_key_press_event_basic(v, key)

on_key_press_event(v, key) ==
  IF key.keyval \in {"Down", "Up"} /\ key.ctrl THEN move_paragraph(v, key)
  ELSE IF get_has_selection(v) THEN on_key_press_event_basic(v, key)
  ELSE IF backward_ok(v.ins) /\ in_comment_or_string(v.ctx, backward_pos(v.ins))
    THEN on_key_press_event_basic(v, key)
  ELSE IF is_bracket_language THEN on_key_press_event_bracket_language(v, key)
  ELSE on_key_press_event_basic(v, key)

\* ------------------------------------------------------------ state changes
Entry(op, key) ==
  [op |-> op, key |-> key, buf |-> buf, ctx |-> ctx, ins |-> ins, sel |-> sel]

Commit(v, op, key) ==
  /\ buf' = v.buf
  /\ ctx' = v.ctx
  /\ ins' = v.ins
  /\ sel' = v.sel
  /\ depth' = v.depth
  /\ log' = v.log
  /\ hist' = Append(hist, Entry(op, key))
  /\ UNCHANGED <<tab_char, tab_size, lang, tab_indents_line>>

AllPlain(b) == [k \in 1..Len(b) |-> "plain"]

ToggleComments ==
  /\ Len(hist) < MaxSteps
  /\ comment_characters # <<>>
  /\ Commit(toggle_comments(View, comment_characters), "toggle_comments", "")
  /\ UNCHANGED res

\* Documents of slashes, blanks, text and line breaks, with any selection.
InitToggle ==
  /\ buf \in SeqsUpTo({"/", SP, "x", NL}, MaxToggleLen)
  /\ ctx = AllPlain(buf)
  /\ ins \in 0..Len(buf)
  /\ sel \in 0..ins
  /\ tab_char = SP
  /\ tab_size = 2
  /\ lang = "cpp"
  /\ tab_indents_line = TRUE
  /\ depth = 0
  /\ log = <<>>
  /\ hist = <<>>
  /\ res = [found |-> FALSE, pos |-> 0]

NextToggle == ToggleComments

SpecToggle == InitToggle /\ [][NextToggle]_vars


\* ------------------------------------------------------- scanner calls
CallFindStartOfClosedExpression ==
  /\ Len(hist) < 1
  /\ \E pos \in 0..Len(buf) :
       /\ res' = find_start_of_closed_expression(buf, ctx, pos, ins, tab_char)
       /\ hist' = Append(hist, [Entry("find_start_of_closed_expression", "")
                                  EXCEPT !.key = pos])
  /\ UNCHANGED <<buf, ctx, ins, sel, tab_char, tab_size, lang, tab_indents_line,
               depth, log>>

\* At most one character of the document lies in a comment or a string.
OneContext(b) ==
  {AllPlain(b)} \cup
  {[AllPlain(b) EXCEPT ![k] = cl] : k \in 1..Len(b), cl \in {"comment"}}

ScanDocs ==
  SeqsUpTo({"(", ")", "'", "\\", NL, TAB}, MaxScanLen)
    \cup SeqsUpTo({"[", "]", "(", NL}, MaxScanLen)

InitScan ==
  /\ buf \in ScanDocs
  /\ ctx \in OneContext(buf)
  /\ ins \in 0..Len(buf)
  /\ sel = ins
  /\ tab_char = TAB
  /\ tab_size = 1
  /\ lang = "cpp"
  /\ tab_indents_line = TRUE
  /\ depth = 0
  /\ log = <<>>
  /\ hist = <<>>
  /\ res = [found |-> FALSE, pos |-> 0]

NextScan == CallFindStartOfClosedExpression

SpecScan == InitScan /\ [][NextScan]_vars


\* ------------------------------------------------------- detector calls
CallFindTabCharAndSize ==
  /\ Len(hist) < 1
  /\ res' \in find_tab_char_and_size(buf, is_bracket_language, lang = "html")
  /\ hist' = Append(hist, Entry("find_tab_char_and_size", ""))
  /\ UNCHANGED <<buf, ctx, ins, sel, tab_char, tab_size, lang, tab_indents_line,
               depth, log>>

\* Programs of brace-delimited blocks: "o" is a line ending in '{', "s" a
\* statement line, "c" a line starting with '}'.
HeaderLine == <<"a", " ", "{">>
StatementLine == <<"b", ";">>
CloserLine == <<"}">>

RECURSIVE ProgDepth(_, _)
ProgDepth(p, k) ==
  IF k = 0 THEN 0
  ELSE ProgDepth(p, k - 1) + (IF p[k] = "o" THEN 1 ELSE IF p[k] = "c" THEN -1 ELSE 0)

Balanced(p) ==
  /\ Len(p) > 0
  /\ ProgDepth(p, Len(p)) = 0
  /\ \A k \in 1..Len(p) : ProgDepth(p, k) >= 0
  /\ \E k \in 1..Len(p) : p[k] = "o"

NoEmptyBlock(p) == \A k \in 1..Len(p) - 1 : ~(p[k] = "o" /\ p[k + 1] = "c")

\* The text of program p indented with n copies of c per nesting level; no
\* line break after the last line.
ProgLine(p, k, c, n) ==
  Rep(c, n * (IF p[k] = "c" THEN ProgDepth(p, k) ELSE ProgDepth(p, k - 1)))
    \o (IF p[k] = "o" THEN HeaderLine
        ELSE IF p[k] = "s" THEN StatementLine ELSE CloserLine)
    \o (IF k < Len(p) THEN <<NL>> ELSE <<>>)

ProgDoc(p, c, n) == Flatten([k \in 1..Len(p) |-> ProgLine(p, k, c, n)])

Programs == {p \in SeqsUpTo({"o", "s", "c"}, MaxProgLen) : Balanced(p)}

\* Four nested blocks, the innermost empty, then four one-statement blocks.
DeepEmptyProgram ==
  <<"o", "o", "o", "o", "c", "c", "c", "c",
    "o", "s", "c", "o", "s", "c", "o", "s", "c", "o", "s", "c">>

\* if (x) {\n<unit>foo();\n}
ExampleDoc(c, n) ==
  <<"i", "f", " ", "(", "x", ")", " ", "{", NL>> \o Rep(c, n)
    \o <<"f", "o", "o", "(", ")", ";", NL, "}">>

\* Every program with its indentation and its text.
ProgTable ==
  {[p |-> p, c |-> c, n |-> n, doc |-> ProgDoc(p, c, n)] :
     p \in Programs \cup {DeepEmptyProgram}, c \in {SP, TAB}, n \in 1..MaxUnit}

DetectDocs ==
  {t.doc : t \in ProgTable}
    \cup {ExampleDoc(c, n) : c \in {SP, TAB}, n \in 1..MaxUnit}

InitDetect ==
  /\ buf \in DetectDocs
  /\ ctx = AllPlain(buf)
  /\ ins = 0
  /\ sel = 0
  /\ tab_char = SP
  /\ tab_size = 2
  /\ lang \in {"cpp", "java"}
  /\ tab_indents_line = TRUE
  /\ depth = 0
  /\ log = <<>>
  /\ hist = <<>>
  /\ res = [char |-> NUL, size |-> 0]

NextDetect == CallFindTabCharAndSize

SpecDetect == InitDetect /\ [][NextDetect]_vars


\* ------------------------------------------------------------- paste calls
\* "a\n\tb\n\tc"
ClaimClipboard == <<"a", NL, TAB, "b", NL, TAB, "c">>

Clipboards ==
  SeqsUpTo({TAB, "a", NL, CR}, MaxPasteLen) \cup {ClaimClipboard}

PasteDocs ==
  SeqsUpTo({TAB, SP, "x", NL}, MaxPasteLen)
    \cup {<<TAB, TAB>>, <<"x", NL, TAB, TAB, NL, "x">>}

Paste ==
  /\ Len(hist) < MaxSteps
  /\ \E text \in Clipboards : Commit(paste(View, text, tab_char), "paste", text)
  /\ UNCHANGED res

InitPaste ==
  /\ buf \in PasteDocs
  /\ ctx = AllPlain(buf)
  /\ ins \in 0..Len(buf)
  /\ sel \in {ins, 0}
  /\ tab_char \in {TAB, SP}
  /\ tab_size = 1
  /\ lang = "cpp"
  /\ tab_indents_line = TRUE
  /\ depth = 0
  /\ log = <<>>
  /\ hist = <<>>
  /\ res = [found |-> FALSE, pos |-> 0]

NextPaste == Paste

SpecPaste == InitPaste /\ [][NextPaste]_vars


\* --------------------------------------------------------------- key presses
Keys ==
  {Key("Return"), Key("Tab"), ShiftKey("Tab"), ShiftKey("ISO_Left_Tab"),
   Key("BackSpace"), Key("Delete"), Key("End"), ShiftKey("End"), Key("Home"),
   ShiftKey("Home"), CtrlKey("Down"), CtrlKey("Up"),
   [keyval |-> "Down", shift |-> TRUE, ctrl |-> TRUE],
   Key("{"), Key("}"), Key(":"), Key("x")}

KeyPress ==
  /\ Len(hist) < MaxSteps
  /\ \E key \in Keys : Commit(on_key_press_event(View, key), "key", key)
  /\ UNCHANGED res

CleanupWhitespaceCharacters ==
  /\ Len(hist) < MaxSteps
  /\ Commit(cleanup_whitespace_characters(View), "cleanup", "")
  /\ UNCHANGED res

\* Documents a key is pressed in: every short text of blanks, text, braces
\* and line breaks, and the statements the bracket policy looks for.
StatementDocs ==
  {<<"i", "f", " ", "(", "x", ")", " ", "{", "}">>,
   <<TAB, "i", "f", " ", "(", "x", ")", " ", "{", "}">>,
   <<SP, SP, "f", "(", ")", " ", "{", " ", "}", NL, "x">>,
   <<"x", NL, SP, TAB, "x", "{", "}">>,
   <<"x", ")", " ", "{", "}">>,
   <<"x", ")", SP>>,
   <<"{", NL, SP, SP, "f", "(", NL, "x", ")", ":">>,
   <<"{", NL, SP, SP, "a", ":">>,
   <<"i", "f", "(", "x", ")", NL, SP, SP>>,
   <<TAB, "e", "l", "s", "e", NL, TAB, TAB, "x", ";">>,
   <<"{", NL, SP, SP, NL, "}">>,
   <<"{", NL, TAB, "x", ";", NL, TAB>>,
   <<"c", "l", "a", "s", "s", " ", "A", " ", "{">>,
   <<"f", "(", "a", ",", SP>>,
   <<SP, SP, "x", NL, SP, SP, SP, "y", NL, "z">>,
   <<TAB, "x", NL, NL, TAB, TAB, "y">>,
   <<"x", SP, SP, NL, SP, SP, "y">>,
   <<SP, "x", ")", NL, SP, SP, "y">>,
   <<SP, SP, SP, "x", NL, NL, SP, SP, SP, SP, "y">>}

KeyDocs == SeqsUpTo({SP, NL, "x", "{", "}"}, MaxKeyLen) \cup StatementDocs

\* The language with the lexical context of the text, the tab style and the
\* tab_indents_line setting a view is opened with.
Contexts == {"plain", "comment"}
TabStyles == {[char |-> SP, size |-> 2], [char |-> TAB, size |-> 1]}

InitKeys ==
  /\ buf \in KeyDocs
  /\ \E k \in Contexts : ctx = [j \in 1..Len(buf) |-> k]
  /\ ins \in 0..Len(buf)
  /\ sel \in {ins, 0, Len(buf)}
  /\ \E t \in TabStyles : tab_char = t.char /\ tab_size = t.size
  /\ lang \in {"cpp", "python"}
  /\ lang = "python" => ctx = AllPlain(buf)
  /\ tab_indents_line \in BOOLEAN
  /\ depth = 0
  /\ log = <<>>
  /\ hist = <<>>
  /\ res = [found |-> FALSE, pos |-> 0]

\* One key press in every such view.
NextKeys == Len(hist) = 0 /\ KeyPress

SpecKeys == InitKeys /\ [][NextKeys]_vars

\* Sequences of handler calls.
HandlerDocs == SeqsUpTo({SP, NL, "x"}, MaxHandlerLen) \cup {<<"x", ")", SP>>}

InitHandlers ==
  /\ buf \in HandlerDocs
  /\ ctx = AllPlain(buf)
  /\ ins \in 0..Len(buf)
  /\ sel \in {ins, 0}
  /\ tab_char = SP
  /\ tab_size = 1
  /\ lang = "cpp"
  /\ tab_indents_line = TRUE
  /\ depth = 0
  /\ log = <<>>
  /\ hist = <<>>
  /\ res = [found |-> FALSE, pos |-> 0]

NextHandlers ==
  \/ KeyPress
  \/ Paste
  \/ ToggleComments
  \/ CleanupWhitespaceCharacters

SpecHandlers == InitHandlers /\ [][NextHandlers]_vars

\* ------------------------------------------------------ opening a view
\* The end of the constructor: the configured defaults, replaced by the
\* detector's pair when auto_tab_char_and_size is set and the pair's
\* character is not 0.
view_tab_style(default_tab_char, default_tab_size, auto_tab_char_and_size, r) ==
  IF auto_tab_char_and_size /\ r.char # NUL
    THEN [char |-> r.char, size |-> r.size]
  ELSE [char |-> default_tab_char, size |-> default_tab_size]

\* Source::View::View on a buffer already loaded; tab_char and tab_size hold
\* the configured defaults before the call.
OpenView ==
  /\ Len(hist) < 1
  /\ \E auto \in BOOLEAN :
       \E r \in find_tab_char_and_size(buf, is_bracket_language, lang = "html") :
         /\ res' = r
         /\ tab_char' = view_tab_style(tab_char, tab_size, auto, r).char
         /\ tab_size' = view_tab_style(tab_char, tab_size, auto, r).size
         /\ hist' = Append(hist, [op |-> "view", key |-> auto, buf |-> buf,
                                  ctx |-> ctx, ins |-> ins, sel |-> sel,
                                  tab_char |-> tab_char, tab_size |-> tab_size])
  /\ UNCHANGED <<buf, ctx, ins, sel, lang, tab_indents_line, depth, log>>

\* Documents of blanks, text, braces and line breaks, and valid defaults.
InitOpen ==
  /\ buf \in SeqsUpTo({SP, TAB, NL, "x", "{"}, MaxOpenLen)
  /\ ctx = AllPlain(buf)
  /\ ins = 0
  /\ sel = 0
  /\ tab_char \in {SP, TAB}
  /\ tab_size \in 1..MaxUnit
  /\ lang \in {"cpp", "python", "html"}
  /\ tab_indents_line = TRUE
  /\ depth = 0
  /\ log = <<>>
  /\ hist = <<>>
  /\ res = [char |-> NUL, size |-> 0]

NextOpen == OpenView

SpecOpen == InitOpen /\ [][NextOpen]_vars

\* ------------------------------------------------------ two key presses
InitKeyPairs ==
  /\ buf \in SeqsUpTo({SP, "x", NL}, MaxPairLen)
  /\ ctx = AllPlain(buf)
  /\ ins \in 0..Len(buf)
  /\ sel \in {ins, 0}
  /\ tab_char = SP
  /\ tab_size = 2
  /\ lang \in {"cpp", "python"}
  /\ tab_indents_line = TRUE
  /\ depth = 0
  /\ log = <<>>
  /\ hist = <<>>
  /\ res = [found |-> FALSE, pos |-> 0]

NextKeyPairs == KeyPress

SpecKeyPairs == InitKeyPairs /\ [][NextKeyPairs]_vars

\* ------------------------------------------- key presses between brackets
\* Texts of statements, classes and open expressions.
BlockDocs ==
  {<<"c", "l", "a", "s", "s", SP, "A", SP, "{">>,
   <<"s", "t", "r", "u", "c", "t", "{">>,
   <<"c", "l", "a", "s", "s", NL, "{">>,
   <<SP, SP, "c", "l", "a", "s", "s", "{">>,
   <<"c", "l", "a", "s", "s", NL, SP, SP, "x", "{">>,
   <<"x", "{", NL, TAB, "c", "l", "a", "s", "s", "{", NL, "}">>,
   <<"f", "(", "a", ",">>,
   <<SP, SP, "f", "(", "a", ",", NL, SP, "b">>,
   <<TAB, "x", "[", "1">>,
   <<"i", "f", "(", "x", ")", "f", "(", "a">>,
   <<"f", "(", "a", ";">>,
   <<"f", "(", "a", ":">>,
   <<"f", "(", ")", "{", "g", "(">>,
   <<"i", "f", "(", "x", ")">>,
   <<TAB, "i", "f", "(", "x", ")">>,
   <<SP, SP, "e", "l", "s", "e">>,
   <<"{", NL, TAB, "w", "h", "i", "l", "e", "(", "x", ")", NL, "}">>,
   <<"e", "l", "s", "e", SP, "i", "f", "(", "x", ")", SP>>,
   <<SP, SP, "f", "o", "r", "(", ")", NL, SP, SP, SP, SP>>,
   <<"i", "f", "(", "x", ")", ";">>,
   <<"x", "(", NL, SP, SP, "i", "f", "(", "x", ")", SP, "y">>,
   <<SP, "y", "[", NL, "i", "f", "(", "x", "]", ")">>,
   <<SP, "{", NL, "i", "f", "(", "x", ")", "}", "y">>,
   <<SP, "y", NL, "i", "f", "(", "x", ")", "{", "y">>,
   <<SP, SP, SP, SP>>}

BracketDocs == SeqsUpTo({"{", "}", SP, TAB, NL, "x"}, MaxBracketLen) \cup BlockDocs

BracketKeys ==
  {Key("Return"), Key("{"), Key("}"), Key(":"), Key("x"), Key("Tab"), ShiftKey("Tab")}

InitBracket ==
  /\ buf \in BracketDocs
  /\ ctx = AllPlain(buf)
  /\ ins \in 0..Len(buf)
  /\ sel \in 0..Len(buf)
  /\ \E t \in TabStyles : tab_char = t.char /\ tab_size = t.size
  /\ lang \in {"cpp", "java"}
  /\ tab_indents_line = TRUE
  /\ depth = 0
  /\ log = <<>>
  /\ hist = <<>>
  /\ res = [found |-> FALSE, pos |-> 0]

\* Up to MaxSteps presses of the keys that indent.
BracketKeyPress ==
  /\ Len(hist) < MaxSteps
  /\ \E key \in BracketKeys : Commit(on_key_press_event(View, key), "key", key)
  /\ UNCHANGED res

NextBracket == BracketKeyPress

SpecBracket == InitBracket /\ [][NextBracket]_vars

\* ------------------------------------------------------------ EntryBox
\* The texts an entry is made with or the user types, and the placeholder
\* texts that key the histories.
EntryTexts == {"", "a", "b"}
Placeholders == {"Find", "Replace"}

\* signal_activate: the text goes before the history of the entry's
\* placeholder unless it is the first one there, and selected_history is 0
\* again; nothing happens without on_activate.
entry_activate(entry, history, text) ==
  IF entry.on_activate
    THEN [entry |-> [entry EXCEPT !.text = text, !.selected_history = 0],
          history |-> IF Len(history) = 0 \/ history[1] # text
                        THEN <<text>> \o history ELSE history,
          read |-> -1]
  ELSE [entry |-> [entry EXCEPT !.text = text], history |-> history, read |-> -1]

\* An Up that does not stop at the oldest text.
entry_up_NoClamp(entry, history) ==
  IF Len(history) > 0
    THEN [entry |-> [entry EXCEPT !.selected_history = @ + 1],
          history |-> history, read |-> entry.selected_history + 1]
  ELSE [entry |-> entry, history |-> history, read |-> -1]

\* GDK_KEY_Up: one text back in the history, not past the oldest; read is the
\* index history is read at, -1 when it is not read.
entry_up(entry, history) ==
  IF Len(history) > 0
    THEN LET selected_history ==
               IF entry.selected_history + 1 >= Len(history) THEN Len(history) - 1
               ELSE entry.selected_history + 1
         IN [entry |-> [entry EXCEPT !.selected_history = selected_history],
             history |-> history, read |-> selected_history]
  ELSE [entry |-> entry, history |-> history, read |-> -1]

\* GDK_KEY_Down: one text forward in the history, not past the newest.
entry_down(entry, history) ==
  IF Len(history) > 0
    THEN LET selected_history ==
               IF entry.selected_history # 0 THEN entry.selected_history - 1
               ELSE entry.selected_history
         IN [entry |-> [entry EXCEPT !.selected_history = selected_history],
             history |-> history, read |-> selected_history]
  ELSE [entry |-> entry, history |-> history, read |-> -1]

\* set_text(history[selected_history]) shows the text read, any text when the
\* index is outside the vector.
EntryShown(r) ==
  IF r.read = -1 THEN {r.entry.text}
  ELSE IF r.read < Len(r.history) THEN {r.history[r.read + 1]}
  ELSE EntryTexts

\* The entries and entry_histories after the event `op` on entry e gave r and
\* the entry shows `text`.
EntryAfter(op, e, r, text) ==
  [entries |-> [res.entries EXCEPT ![e] = [r.entry EXCEPT !.text = text]],
   entry_histories |->
     [res.entry_histories EXCEPT ![res.entries[e].placeholder_text] = r.history],
   event |-> [op |-> op, entry |-> e, read |-> r.read, size |-> Len(r.history),
              before |-> res.entries[e].selected_history]]

EntryHistory(e) == res.entry_histories[res.entries[e].placeholder_text]

\* Enter in an entry, after the user typed `text` or left the text it shows.
EntryActivate ==
  /\ \E e \in 1..MaxEntries, text \in EntryTexts :
       /\ Len(EntryHistory(e)) < MaxHistory
       /\ res' = EntryAfter("activate", e,
                            entry_activate(res.entries[e], EntryHistory(e), text), text)
  /\ UNCHANGED <<buf, ctx, ins, sel, tab_char, tab_size, lang, tab_indents_line,
                 depth, log, hist>>

EntryUp ==
  /\ \E e \in 1..MaxEntries :
       LET r == entry_up(res.entries[e], EntryHistory(e))
       IN \E text \in EntryShown(r) : res' = EntryAfter("Up", e, r, text)
  /\ UNCHANGED <<buf, ctx, ins, sel, tab_char, tab_size, lang, tab_indents_line,
                 depth, log, hist>>

EntryDown ==
  /\ \E e \in 1..MaxEntries :
       LET r == entry_down(res.entries[e], EntryHistory(e))
       IN \E text \in EntryShown(r) : res' = EntryAfter("Down", e, r, text)
  /\ UNCHANGED <<buf, ctx, ins, sel, tab_char, tab_size, lang, tab_indents_line,
                 depth, log, hist>>

\* Entries made with any content, callback and placeholder text, before any
\* of them was activated.
InitEntries ==
  /\ buf = <<>>
  /\ ctx = <<>>
  /\ ins = 0
  /\ sel = 0
  /\ tab_char = SP
  /\ tab_size = 1
  /\ lang = "cpp"
  /\ tab_indents_line = TRUE
  /\ depth = 0
  /\ log = <<>>
  /\ hist = <<>>
  /\ \E entries \in [1..MaxEntries ->
                       [placeholder_text : Placeholders, text : EntryTexts,
                        selected_history : {0}, on_activate : BOOLEAN]] :
       res = [entries |-> entries,
              entry_histories |-> [p \in Placeholders |-> <<>>],
              event |-> [op |-> "Entry", entry |-> 0, read |-> -1, size |-> 0,
                         before |-> 0]]

NextEntries == EntryActivate \/ EntryUp \/ EntryDown

SpecEntries == InitEntries /\ [][NextEntries]_vars

\* --------------------------------------------------------- search calls
Called(op, key) ==
  /\ hist' = Append(hist, [Entry(op, "") EXCEPT !.key = key])
  /\ UNCHANGED <<buf, ctx, ins, sel, tab_char, tab_size, lang, tab_indents_line,
                 depth, log>>

CallFindOpenExpressionSymbol ==
  /\ Len(hist) < 1
  /\ \E pos \in 0..Len(buf) : \E until \in 0..pos :
       /\ res' = find_open_expression_symbol(buf, ctx, pos, until)
       /\ Called("find_open_expression_symbol", [pos |-> pos, until |-> until])

CallFindRightBracketForward ==
  /\ Len(hist) < 1
  /\ \E pos \in 0..Len(buf) :
       /\ res' = find_right_bracket_forward(buf, ctx, pos)
       /\ Called("find_right_bracket_forward", [pos |-> pos, until |-> 0])

CallFindLeftBracketBackward ==
  /\ Len(hist) < 1
  /\ \E pos \in 0..Len(buf) :
       /\ res' = find_left_bracket_backward(buf, ctx, pos)
       /\ Called("find_left_bracket_backward", [pos |-> pos, until |-> 0])

CallGetToken ==
  /\ Len(hist) < 1
  /\ \E pos \in 0..Len(buf) :
       /\ res' = [found |-> TRUE, pos |-> token_start(buf, pos, pos),
                  text |-> get_token(buf, pos)]
       /\ Called("get_token", [pos |-> pos, until |-> 0])

SearchDocs ==
  SeqsUpTo({"(", ")", "[", "]", "'"}, MaxSearchLen)
    \cup SeqsUpTo({"{", "}", "'", "\\", "x"}, MaxSearchLen)
    \cup SeqsUpTo({TAB, NL, ")", "("}, MaxSearchLen)

InitSearch ==
  /\ buf \in SearchDocs
  /\ ctx \in OneContext(buf)
  /\ ins \in 0..Len(buf)
  /\ sel = ins
  /\ tab_char = TAB
  /\ tab_size = 1
  /\ lang = "cpp"
  /\ tab_indents_line = TRUE
  /\ depth = 0
  /\ log = <<>>
  /\ hist = <<>>
  /\ res = [found |-> FALSE, pos |-> 0]

NextSearch ==
  \/ CallFindStartOfClosedExpression
  \/ CallFindOpenExpressionSymbol
  \/ CallFindRightBracketForward
  \/ CallFindLeftBracketBackward
  \/ CallGetToken

SpecSearch == InitSearch /\ [][NextSearch]_vars

\* ------------------------------------------------- the scans, step by step
\* A scan in progress: its iterator, its local variables (st), and, once it
\* returned, what it returned; steps counts the tests of its loop conditions.
Scans ==
  {"find_start_of_closed_expression", "find_open_expression_symbol",
   "find_right_bracket_forward", "find_left_bracket_backward",
   "paragraph_down", "paragraph_up", "find_tab_char_and_size"}

Continue(r, iter, st) == [r EXCEPT !.iter = iter, !.st = st, !.steps = @ + 1]
Return(r, found, pos, st) ==
  [r EXCEPT !.done = TRUE, !.found = found, !.pos = pos, !.iter = pos,
            !.st = st, !.steps = @ + 1]

\* do { ... } while(iter.backward_char()), then the loop over the tab_chars.
fsce_next(b, c, insert, tc, r) ==
  IF r.pc = "scan"
    THEN LET st == paren_step(b, c, r.iter, r.st)
         IN IF starts_line(b, r.iter) /\ fsce_closed(st)
              THEN [Continue(r, r.iter, st) EXCEPT !.pc = "skip"]
            ELSE IF backward_ok(r.iter) THEN Continue(r, backward_pos(r.iter), st)
            ELSE Return(r, FALSE, 0, st)
  ELSE IF r.iter # insert /\ CharAt(b, r.iter) = tc
    THEN IF forward_ok(b, r.iter) THEN Continue(r, forward_pos(b, r.iter), r.st)
         ELSE Return(r, TRUE, forward_pos(b, r.iter), r.st)
  ELSE Return(r, TRUE, r.iter, r.st)

\* while(iter!=until_iter && iter.backward_char()) { ... }
foes_next(b, c, r) ==
  IF r.iter = r.until \/ ~backward_ok(r.iter) THEN Return(r, FALSE, r.iter, r.st)
  ELSE LET iter == backward_pos(r.iter)
           st == paren_step(b, c, iter, r.st)
       IN IF ~in_comment_or_string(c, iter) /\ (st.count1 < 0 \/ st.count2 < 0)
            THEN Return(r, TRUE, iter, st)
          ELSE Continue(r, iter, st)

\* A forward search whose iterator stays where it is.
frbf_next_Stay(b, c, r) ==
  IF ~forward_ok(b, r.iter) THEN Return(r, FALSE, r.iter, r.st)
  ELSE LET st == brace_step(b, c, r.iter, r.st, "{", "}")
       IN IF st.found THEN Return(r, TRUE, r.iter, st)
          ELSE r

\* while(iter.forward_char()) { ... }
frbf_next(b, c, r) ==
  IF ~forward_ok(b, r.iter) THEN Return(r, FALSE, r.iter, r.st)
  ELSE LET iter == forward_pos(b, r.iter)
           st == brace_step(b, c, iter, r.st, "{", "}")
       IN IF st.found THEN Return(r, TRUE, iter, st) ELSE Continue(r, iter, st)

\* while(iter.backward_char()) { ... }
flbb_next(b, c, r) ==
  IF ~backward_ok(r.iter) THEN Return(r, FALSE, r.iter, r.st)
  ELSE LET iter == backward_pos(r.iter)
           st == brace_step(b, c, iter, r.st, "}", "{")
       IN IF st.found THEN Return(r, TRUE, iter, st) ELSE Continue(r, iter, st)

\* for(;;) { if(!iter) break; ...; iter.forward_char(); } of Ctrl+Down
paragraph_down_next(b, r) ==
  IF is_end(b, r.iter) THEN Return(r, TRUE, r.iter, r.st)
  ELSE LET text == ~ends_line(b, r.iter) /\ ~IsBlank(CharAt(b, r.iter))
           e == (r.st.empty_line \/ starts_line(b, r.iter)) /\ ~text
           t == r.st.text_found \/ text
           st == [empty_line |-> e, text_found |-> t]
       IN IF e /\ t /\ ends_line(b, r.iter) THEN Return(r, TRUE, r.iter, st)
          ELSE Continue(r, forward_pos(b, r.iter), st)

\* for(;;) { if(!iter || iter.is_start()) break; ...; iter.backward_char(); }
paragraph_up_next(b, r) ==
  IF is_end(b, r.iter) \/ r.iter = 0 THEN Return(r, TRUE, r.iter, r.st)
  ELSE LET text == ~ends_line(b, r.iter) /\ ~IsBlank(CharAt(b, r.iter))
           e == (r.st.empty_line \/ ends_line(b, r.iter)) /\ ~text
           t == r.st.text_found \/ text
           st == [empty_line |-> e, text_found |-> t]
       IN IF e /\ t /\ starts_line(b, r.iter) THEN Return(r, TRUE, r.iter, st)
          ELSE Continue(r, backward_pos(r.iter), st)

\* while(iter) { ... } of either branch of find_tab_char_and_size
detect_next(b, bracket, html, r) ==
  IF is_end(b, r.iter) THEN Return(r, TRUE, r.iter, r.st)
  ELSE LET t == IF bracket /\ ~html THEN bracket_body(b, r.iter, r.st)
                ELSE plain_body(b, r.iter, r.st)
       IN Continue(r, t.i, t.d)

\* The scan as it is entered: start is the position it is called with.
ScanStart(b, scan, start, until) ==
  [scan |-> scan, pc |-> "scan", start |-> start, until |-> until,
   iter |-> CASE scan = "paragraph_down" -> get_iter_at_line(b, get_line_nr(b, start))
              [] scan = "paragraph_up" ->
                   backward_pos(get_iter_at_line(b, get_line_nr(b, start)))
              [] scan = "find_tab_char_and_size" -> 0
              [] OTHER -> start,
   st |-> CASE scan \in {"find_start_of_closed_expression",
                         "find_open_expression_symbol"} -> paren_init
            [] scan \in {"find_right_bracket_forward",
                         "find_left_bracket_backward"} -> brace_init
            [] scan \in {"paragraph_down", "paragraph_up"} ->
                 [empty_line |-> FALSE, text_found |-> FALSE]
            [] OTHER -> detect_init,
   done |-> FALSE, found |-> FALSE, pos |-> 0, steps |-> 0]

Scanning(scan) == res.scan = scan /\ ~res.done

StepKeeps ==
  UNCHANGED <<buf, ctx, ins, sel, tab_char, tab_size, lang, tab_indents_line,
              depth, log, hist>>

StepFindStartOfClosedExpression ==
  /\ Scanning("find_start_of_closed_expression")
  /\ res' = fsce_next(buf, ctx, ins, tab_char, res)
  /\ StepKeeps

StepFindOpenExpressionSymbol ==
  /\ Scanning("find_open_expression_symbol")
  /\ res' = foes_next(buf, ctx, res)
  /\ StepKeeps

StepFindRightBracketForward ==
  /\ Scanning("find_right_bracket_forward")
  /\ res' = frbf_next(buf, ctx, res)
  /\ StepKeeps

StepFindLeftBracketBackward ==
  /\ Scanning("find_left_bracket_backward")
  /\ res' = flbb_next(buf, ctx, res)
  /\ StepKeeps

StepParagraphDown ==
  /\ Scanning("paragraph_down")
  /\ res' = paragraph_down_next(buf, res)
  /\ StepKeeps

StepParagraphUp ==
  /\ Scanning("paragraph_up")
  /\ res' = paragraph_up_next(buf, res)
  /\ StepKeeps

StepFindTabCharAndSize ==
  /\ Scanning("find_tab_char_and_size")
  /\ res' = detect_next(buf, is_bracket_language, lang = "html", res)
  /\ StepKeeps

\* Documents with unbalanced brackets, open quotes and open comments.
StepDocs(scan) ==
  CASE scan \in {"find_start_of_closed_expression", "find_open_expression_symbol"} ->
         SeqsUpTo({"(", ")", "[", "'", NL, TAB}, MaxStepLen)
    [] scan \in {"find_right_bracket_forward", "find_left_bracket_backward"} ->
         SeqsUpTo({"{", "}", "'", "\\", "x"}, MaxStepLen)
    [] scan \in {"paragraph_down", "paragraph_up"} ->
         SeqsUpTo({NL, SP, "x"}, MaxStepLen)
    [] OTHER ->
         SeqsUpTo({"{", NL, SP, "x", "/", "*", ":", "'"}, MaxStepLen)

InitSteps ==
  /\ \E scan \in Scans :
       /\ buf \in StepDocs(scan)
       /\ ctx \in OneContext(buf)
       /\ \E start \in 0..Len(buf) :
            /\ ins \in IF scan = "find_start_of_closed_expression"
                         THEN 0..Len(buf) ELSE {start}
            /\ \E until \in IF scan = "find_open_expression_symbol"
                             THEN 0..start ELSE {0} :
                 res = ScanStart(buf, scan, start, until)
       /\ lang \in IF scan = "find_tab_char_and_size"
                     THEN {"cpp", "python"} ELSE {"cpp"}
  /\ sel = ins
  /\ tab_char = TAB
  /\ tab_size = 1
  /\ tab_indents_line = TRUE
  /\ depth = 0
  /\ log = <<>>
  /\ hist = <<>>

NextSteps ==
  \/ StepFindStartOfClosedExpression
  \/ StepFindOpenExpressionSymbol
  \/ StepFindRightBracketForward
  \/ StepFindLeftBracketBackward
  \/ StepParagraphDown
  \/ StepParagraphUp
  \/ StepFindTabCharAndSize

\* A scan runs on the thread that called it until it returns.
SpecSteps == InitSteps /\ [][NextSteps]_vars /\ WF_vars(NextSteps)

\* ------------------------------------------------------------------ claims
SplitLines(b) == [n \in 1..get_line_count(b) |-> get_line(b, n - 1)]

\* l2 is l1 with one space put directly after an occurrence of the prefix cc.
OneSpaceAfterPrefix(l1, l2, cc) ==
  \E j \in Len(cc)..Len(l1) :
    /\ SubSeq(l1, j - Len(cc) + 1, j) = cc
    /\ l2 = SubSeq(l1, 1, j) \o <<SP>> \o SubSeq(l1, j + 1, Len(l1))

SameModuloOneSpace(b1, b2, cc) ==
  /\ get_line_count(b1) = get_line_count(b2)
  /\ \A n \in 1..get_line_count(b1) :
       LET l1 == SplitLines(b1)[n]
           l2 == SplitLines(b2)[n]
       IN l1 = l2 \/ OneSpaceAfterPrefix(l1, l2, cc) \/ OneSpaceAfterPrefix(l2, l1, cc)

ToggledTwice ==
  /\ Len(hist) = 2
  /\ hist[1].op = "toggle_comments"
  /\ hist[2].op = "toggle_comments"

FirstToggleInserted ==
  LET sc == toggle_scan(hist[1].buf, Min(hist[1].ins, hist[1].sel),
                        Max(hist[1].ins, hist[1].sel), comment_characters)
  IN sc.lines # {} /\ ~sc.lines_commented

\* C1 as stated: toggling twice on the same line range gives back the original
\* text, except that a line may differ by exactly one space directly after its
\* comment prefix.
C1_RoundTripModuloOneSpace ==
  ToggledTwice => SameModuloOneSpace(hist[1].buf, buf, comment_characters)

\* C1 amended: when the first toggle inserts the prefix (some counted line of
\* the range does not start with it), the second toggle removes exactly what
\* the first inserted and the buffer text equals the original text.
C1_InsertThenRemoveRestores ==
  (ToggledTwice /\ FirstToggleInserted) => buf = hist[1].buf

\* A range mixing a commented and an uncommented line was toggled twice.
C1_Witness ==
  /\ ToggledTwice
  /\ FirstToggleInserted
  /\ hist[2].buf # hist[1].buf
  /\ get_line_nr(hist[1].buf, hist[1].sel) # get_line_nr(hist[1].buf, hist[1].ins)
  /\ toggle_line(hist[1].buf, get_line_nr(hist[1].buf, hist[1].sel),
                 comment_characters).commented

\* The bracket balance the spec describes, stated without the scan: the quotes
\* a backward scan from pos has examined before it reaches offset k.
TogglingQuotes(b, c, k, pos) ==
  {j \in k + 1..pos :
     ~in_comment_or_string(c, j) /\ CharAt(b, j) = "'" /\ quote_toggles(b, j)}

Counted(b, c, k, pos) ==
  /\ ~in_comment_or_string(c, k)
  /\ CharAt(b, k) # "'"
  /\ Cardinality(TogglingQuotes(b, c, k, pos)) % 2 = 0

Balance(b, c, q, pos, closer, opener) ==
  Cardinality({k \in q..pos : Counted(b, c, k, pos) /\ CharAt(b, k) = closer})
    - Cardinality({k \in q..pos : Counted(b, c, k, pos) /\ CharAt(b, k) = opener})

Qualifies(b, c, q, pos) ==
  /\ starts_line(b, q)
  /\ Balance(b, c, q, pos, ")", "(") <= 0
  /\ Balance(b, c, q, pos, "]", "[") <= 0

FsceCalled ==
  Len(hist) = 1 /\ hist[1].op = "find_start_of_closed_expression" /\ res.found

\* C2 as stated: on success the returned position is the first line start,
\* scanning backward from pos, at which the () and the [] counter are both
\* <= 0, and no line start nearer to pos satisfies that.
C2_ReturnsFirstClosedLineStart ==
  FsceCalled =>
    /\ Qualifies(buf, ctx, res.pos, hist[1].key)
    /\ \A q \in res.pos + 1..hist[1].key : ~Qualifies(buf, ctx, q, hist[1].key)

\* C2 amended: on success the returned position is on the line of that first
\* line start q: it is q advanced over the leading tab_char characters of the
\* line, not past the cursor; no line start nearer to pos has both counters
\* <= 0.
C2_ReturnsIndentEndOfFirstClosedLine ==
  FsceCalled =>
    \E q \in 0..hist[1].key :
      /\ Qualifies(buf, ctx, q, hist[1].key)
      /\ \A q2 \in q + 1..hist[1].key : ~Qualifies(buf, ctx, q2, hist[1].key)
      /\ q <= res.pos
      /\ \A k \in q..res.pos - 1 : CharAt(buf, k) = tab_char /\ k # ins
      /\ res.pos = ins \/ CharAt(buf, res.pos) # tab_char

\* The scan passed a line start with an open bracket and skipped indentation.
C2_Witness ==
  /\ FsceCalled
  /\ \E q2 \in 1..hist[1].key :
       /\ starts_line(buf, q2)
       /\ ~Qualifies(buf, ctx, q2, hist[1].key)
       /\ res.pos < q2
  /\ ~starts_line(buf, res.pos)

DetectCalled == Len(hist) = 1 /\ hist[1].op = "find_tab_char_and_size"

\* Some line of the program lies inside a block.
HasIndentedLine(p) == \E k \in 1..Len(p) - 1 : p[k] = "o" /\ p[k + 1] # "c"

C3_Witness ==
  /\ DetectCalled
  /\ buf = ExampleDoc(SP, 4)
  /\ res = [char |-> SP, size |-> 4]

C4_Case ==
  /\ Len(hist) = 1
  /\ hist[1].op = "paste"
  /\ hist[1].key = ClaimClipboard
  /\ tab_char = TAB
  /\ hist[1].ins = hist[1].sel
  /\ get_line(hist[1].buf, get_line_nr(hist[1].buf, hist[1].ins)) = <<TAB, TAB>>
  /\ ends_line(hist[1].buf, hist[1].ins)

Inserted(text) ==
  /\ buf = SubSeq(hist[1].buf, 1, hist[1].ins) \o text
             \o SubSeq(hist[1].buf, hist[1].ins + 1, Len(hist[1].buf))
  /\ ins = hist[1].ins + Len(text)

\* C4 as stated: the paste inserts "a\n\t\t\tb\n\t\t\tc" at the cursor.
C4_PasteInsertsThreeTabs ==
  C4_Case => Inserted(<<"a", NL, TAB, TAB, TAB, "b", NL, TAB, TAB, TAB, "c">>)

\* C4 amended: the paste inserts "a\n\t\tb\n\t\tc" at the cursor: the common
\* indent of one tab is stripped from the second and third line and the two
\* tabs of the destination line are put before each.
C4_PasteInsertsTwoTabs ==
  C4_Case => Inserted(<<"a", NL, TAB, TAB, "b", NL, TAB, TAB, "c">>)

\* The claim's paste happened, on a line between other lines.
C4_Witness == C4_Case /\ Len(hist[1].buf) > 2 /\ Len(buf) > Len(hist[1].buf)

\* ------------------------------------------------------------ key claims
\* The view the first handler was called in.
Pre == [buf |-> hist[1].buf, ctx |-> hist[1].ctx, ins |-> hist[1].ins,
        sel |-> hist[1].sel]

KeyPressed(keys) == Len(hist) = 1 /\ hist[1].op = "key" /\ hist[1].key \in keys

PreLineStart == get_iter_at_line(Pre.buf, get_line_nr(Pre.buf, Pre.ins))
PreLineBefore == get_line_before(Pre.buf, Pre.ins)

CountOf(line, c) == Cardinality({k \in 1..Len(line) : line[k] = c})

\* The text of the buffer without its spaces, tabs and line breaks.
RECURSIVE NonWhitespace(_)
NonWhitespace(b) ==
  IF b = <<>> THEN <<>>
  ELSE IF Head(b) \in {SP, TAB, NL} THEN NonWhitespace(Tail(b))
  ELSE <<Head(b)>> \o NonWhitespace(Tail(b))

\* The undo steps a handler's calls make: an outermost begin/end pair with an
\* edit inside is one step, and so is an edit outside every pair.
RECURSIVE UndoWalk(_, _, _, _)
UndoWalk(l, d, edited, n) ==
  IF l = <<>> THEN n
  ELSE IF Head(l) = "begin"
    THEN UndoWalk(Tail(l), d + 1, IF d = 0 THEN FALSE ELSE edited, n)
  ELSE IF Head(l) = "end"
    THEN UndoWalk(Tail(l), d - 1, edited, IF d = 1 /\ edited THEN n + 1 ELSE n)
  ELSE IF d <= 0 THEN UndoWalk(Tail(l), d, edited, n + 1)
  ELSE UndoWalk(Tail(l), d, TRUE, n)
UndoSteps(l) == UndoWalk(l, 0, FALSE, 0)

\* Enter in a bracket language, plain context and no selection, the cursor
\* directly between `{` and `}`, on a line whose text before the cursor leaves
\* no `)` or `]` without its opener.
C5_Case ==
  /\ KeyPressed({Key("Return")})
  /\ is_bracket_language
  /\ Pre.ins = Pre.sel
  /\ \A k \in 1..Len(Pre.ctx) : Pre.ctx[k] = "plain"
  /\ Pre.ins > 0
  /\ CharAt(Pre.buf, Pre.ins - 1) = "{"
  /\ CharAt(Pre.buf, Pre.ins) = "}"
  /\ CountOf(PreLineBefore, ")") <= CountOf(PreLineBefore, "(")
  /\ CountOf(PreLineBefore, "]") <= CountOf(PreLineBefore, "[")

\* C5: Enter between `{` and `}` on a statement line with indentation T leaves
\* the statement line ending in `{`, then a line of T and one unit, then T
\* and the `}`, with the cursor at the end of the middle line.
C5_EnterBetweenBraces ==
  C5_Case =>
    LET T == LeadingBlanks(PreLineBefore)
    IN /\ buf = SubSeq(Pre.buf, 1, Pre.ins) \o <<NL>> \o T \o tab \o <<NL>> \o T
                  \o SubSeq(Pre.buf, Pre.ins + 1, Len(Pre.buf))
       /\ ins = Pre.ins + 1 + Len(T) + Len(tab)
       /\ sel = ins

\* The claim's Enter happened on an indented statement line.
C5_Witness ==
  /\ C5_Case
  /\ Len(LeadingBlanks(PreLineBefore)) > 0
  /\ Len(PreLineBefore) > Len(LeadingBlanks(PreLineBefore)) + 1
  /\ get_line_count(buf) = get_line_count(Pre.buf) + 2

\* The lines Shift-Tab looks at: those of the selection, but for the last one
\* when the selection ends at its first column.
TouchedLines ==
  {n \in get_line_nr(Pre.buf, selection_start(Pre))
           ..get_line_nr(Pre.buf, selection_end(Pre)) :
     ~(/\ get_has_selection(Pre)
       /\ n = get_line_nr(Pre.buf, selection_end(Pre))
       /\ starts_line(Pre.buf, selection_end(Pre)))}

C6_Case ==
  /\ KeyPressed({ShiftKey("Tab"), ShiftKey("ISO_Left_Tab")})
  /\ \E n \in TouchedLines :
       /\ get_line(Pre.buf, n) # <<>>
       /\ LeadingBlanks(get_line(Pre.buf, n)) = <<>>

\* C6: Shift-Tab changes nothing when a touched line that is not empty has no
\* leading whitespace.
C6_ShiftTabAborts ==
  C6_Case => buf = Pre.buf /\ ins = Pre.ins /\ sel = Pre.sel

\* Shift-Tab was pressed on a selection that holds an indented line before a
\* line of text without indentation.
C6_Witness ==
  /\ C6_Case
  /\ \E m, n \in TouchedLines :
       /\ m < n
       /\ LeadingBlanks(get_line(Pre.buf, m)) # <<>>
       /\ get_line(Pre.buf, n) # <<>>
       /\ LeadingBlanks(get_line(Pre.buf, n)) = <<>>

C7_Case ==
  /\ KeyPressed({Key("BackSpace")})
  /\ Pre.ins = Pre.sel
  /\ Len(PreLineBefore) >= 1
  /\ \A k \in 1..Len(PreLineBefore) : IsBlank(PreLineBefore[k])

\* C7: one Backspace after a run of blanks that reaches back to the start of
\* the line erases the whole run (and the line break before it, if there is
\* one) and leaves the rest of the text, in one undo step.
C7_SmartBackspaceErasesRun ==
  C7_Case =>
    /\ buf = SubSeq(Pre.buf, 1, Max(PreLineStart - 1, 0))
               \o SubSeq(Pre.buf, Pre.ins + 1, Len(Pre.buf))
    /\ UndoSteps(log) = 1

\* Backspace was pressed after three blanks.
C7_Witness == C7_Case /\ Len(PreLineBefore) = 3 /\ Len(buf) <= Len(Pre.buf) - 3

\* C8: the insertions and erasures of one key press lie in one begin/end
\* pair: a key press makes at most one undo step.
C8_OneUndoStepPerKeyPress ==
  (Len(hist) = 1 /\ hist[1].op = "key") => UndoSteps(log) <= 1

\* The running nesting depth of a handler's calls never falls below zero.
RECURSIVE NeverBelow(_, _)
NeverBelow(l, d) ==
  IF l = <<>> THEN TRUE
  ELSE IF Head(l) = "begin" THEN NeverBelow(Tail(l), d + 1)
  ELSE IF Head(l) = "end" THEN d > 0 /\ NeverBelow(Tail(l), d - 1)
  ELSE NeverBelow(Tail(l), d)

\* C9: after any sequence of handler calls the user-action nesting depth is
\* zero, and no handler called end_user_action without a begin_user_action
\* of its own before it.
C9_UserActionsClosed == depth = 0 /\ NeverBelow(log, 0)

\* A handler returned early, as the second call of a sequence.
C9_Witness ==
  /\ Len(hist) = 2
  /\ hist[2].op = "key"
  /\ hist[2].key = ShiftKey("Tab")
  /\ hist[2].buf # hist[1].buf
  /\ buf = hist[2].buf
  /\ CharAt(buf, get_iter_at_line(buf, get_line_nr(buf, ins))) = "x"

\* The keys of the indentation operations, pressed where the operation
\* applies: Enter, `{` and `}` without a selection, Shift-Tab, Backspace
\* after nothing but blanks on the line and Delete before nothing but blanks
\* up to a line break.
C10_Case ==
  \/ KeyPressed({Key("Return"), Key("{"), Key("}")}) /\ Pre.ins = Pre.sel
  \/ KeyPressed({ShiftKey("Tab"), ShiftKey("ISO_Left_Tab")})
  \/ /\ KeyPressed({Key("BackSpace")})
     /\ Pre.ins = Pre.sel
     /\ \A k \in 1..Len(PreLineBefore) : IsBlank(PreLineBefore[k])
  \/ /\ KeyPressed({Key("Delete")})
     /\ Pre.ins = Pre.sel
     /\ smart_delete_scan(Pre.buf, Pre.ins).smart

\* Whether the characters of a occur in b, in order.
RECURSIVE IsSubsequence(_, _)
IsSubsequence(a, b) ==
  IF a = <<>> THEN TRUE
  ELSE IF b = <<>> THEN FALSE
  ELSE IF Head(a) = Head(b) THEN IsSubsequence(Tail(a), Tail(b))
  ELSE IsSubsequence(a, Tail(b))

\* C10: an indentation operation erases only whitespace: the characters that
\* are not whitespace before the key press are all there afterwards, in order.
C10_IndentationKeepsText ==
  C10_Case => IsSubsequence(NonWhitespace(Pre.buf), NonWhitespace(buf))

\* ----------------------------------------------------------- view claims
ViewOpened == Len(hist) = 1 /\ hist[1].op = "view"

\* C11: a view opened with auto-detection and valid defaults has a space or
\* a tab as its character and a width of at least 1; the defaults are kept
\* whenever the detector found no character or no width.
C11_TabStyleValid ==
  (ViewOpened /\ hist[1].key) =>
    /\ tab_char \in {SP, TAB}
    /\ tab_size >= 1
    /\ (res.char = NUL \/ res.size = 0)
         => (tab_char = hist[1].tab_char /\ tab_size = hist[1].tab_size)

\* ------------------------------------------------------ smart end and home
\* The offsets of the cursor line's characters that are not blanks.
PreTextOffsets ==
  {i \in PreLineStart..get_iter_at_line_end(Pre.buf, get_line_nr(Pre.buf, Pre.ins)) - 1 :
     ~IsBlank(CharAt(Pre.buf, i))}
PreLineEnd == get_iter_at_line_end(Pre.buf, get_line_nr(Pre.buf, Pre.ins))
PreLastText == CHOOSE i \in PreTextOffsets : \A j \in PreTextOffsets : j <= i

\* End was pressed twice, without a selection, on a line with blanks after
\* its text, the cursor before the last character of the text.
C12_Case ==
  /\ Len(hist) = 2
  /\ hist[1].op = "key" /\ hist[1].key = Key("End")
  /\ hist[2].op = "key" /\ hist[2].key = Key("End")
  /\ Pre.ins = Pre.sel
  /\ PreTextOffsets # {}
  /\ PreLastText + 1 < PreLineEnd
  /\ Pre.ins <= PreLastText

\* C12 as stated: the first End goes to just after the text, the second to
\* the end of the line.
C12_EndTextThenLine ==
  C12_Case => hist[2].ins = PreLastText + 1 /\ ins = PreLineEnd

\* C12 amended: the first End goes to the end of the line, the second back to
\* just after the last character of the text, or onto that character when it
\* is the first of the line.
C12_EndLineThenText ==
  C12_Case =>
    /\ hist[2].ins = PreLineEnd
    /\ ins = IF PreLastText = PreLineStart THEN PreLineStart ELSE PreLastText + 1
    /\ buf = Pre.buf

\* Two End presses on a line of two characters of text and a blank after.
C12_Witness ==
  C12_Case /\ PreLastText > PreLineStart /\ ins = PreLastText + 1 /\ sel = ins

\* The first offset of the cursor line that holds no blank: the first
\* character of its text, or the end of the line when it has no text.
PreTextStart ==
  CHOOSE i \in PreLineStart..PreLineEnd :
    /\ i = PreLineEnd \/ ~IsBlank(CharAt(Pre.buf, i))
    /\ \A j \in PreLineStart..(i - 1) : IsBlank(CharAt(Pre.buf, j))

C13_Case == KeyPressed({Key("Home"), ShiftKey("Home")})

\* C13 as stated: Home goes to the first character of the text from every
\* other column, and to column 0 from that one.
C13_HomeFromAnywhere ==
  C13_Case =>
    ins = IF Pre.ins # PreTextStart THEN PreTextStart ELSE PreLineStart

\* C13 amended: Home goes to the first character of the text from column 0
\* and from the columns after it, and to column 0 from that character and from
\* the columns strictly inside the blanks before it; the text is unchanged and
\* the selection bound moves along unless Shift is held.
C13_HomeFromTextOrStart ==
  C13_Case =>
    /\ ins = IF Pre.ins > PreTextStart \/ Pre.ins = PreLineStart
               THEN PreTextStart ELSE PreLineStart
    /\ sel = IF hist[1].key.shift THEN Pre.sel ELSE ins
    /\ buf = Pre.buf

\* Home pressed with the cursor strictly inside the blanks before the text.
C13_Witness ==
  /\ C13_Case
  /\ PreLineStart < Pre.ins /\ Pre.ins < PreTextStart /\ PreTextStart < PreLineEnd
  /\ ins = PreLineStart

\* ------------------------------------------- keys in a comment or string
PreView == [buf |-> Pre.buf, ctx |-> Pre.ctx, ins |-> Pre.ins, sel |-> Pre.sel,
            depth |-> 0, log |-> <<>>]

ParagraphKeys == {k \in Keys : k.keyval \in {"Down", "Up"} /\ k.ctrl}

SameText(v) == buf = v.buf /\ ins = v.ins /\ sel = v.sel

\* A key other than a paragraph move was pressed without a selection, the
\* character before the cursor in a comment or a string.
C14_Case ==
  /\ KeyPressed(Keys \ ParagraphKeys)
  /\ Pre.ins = Pre.sel
  /\ Pre.ins > 0
  /\ Pre.ctx[Pre.ins] \in {"comment", "string"}

\* C14 as stated: in a comment or string every key does what the end of the
\* basic handler does with it (the typed character is inserted, any other key
\* goes to the toolkit), no indentation being computed.
C14_LiteralInsertion ==
  C14_Case => SameText(basic_tail(begin_user_action(PreView), hist[1].key))

\* C14 amended: in a comment or string every key is handled by the basic
\* handler, whatever the language, and Enter between two characters of text
\* inserts a newline and a copy of the blanks the line starts with.
C14_BasicHandling ==
  C14_Case =>
    /\ SameText(on_key_press_event_basic(PreView, hist[1].key))
    /\ log = on_key_press_event_basic(PreView, hist[1].key).log
    /\ ( /\ hist[1].key = Key("Return")
         /\ ~starts_line(Pre.buf, Pre.ins) /\ ~ends_line(Pre.buf, Pre.ins)
         /\ ~IsBlank(CharAt(Pre.buf, Pre.ins)) /\ ~IsBlank(CharAt(Pre.buf, Pre.ins - 1)) )
       => buf = SubSeq(Pre.buf, 1, Pre.ins) \o <<NL>>
                  \o LeadingBlanks(get_line(Pre.buf, get_line_nr(Pre.buf, Pre.ins)))
                  \o SubSeq(Pre.buf, Pre.ins + 1, Len(Pre.buf))

\* Enter in a comment of a bracket language, after an opening brace: more
\* than the newline is inserted, and no closing brace.
C14_Witness ==
  /\ C14_Case
  /\ hist[1].key = Key("Return")
  /\ is_bracket_language
  /\ CharAt(Pre.buf, Pre.ins - 1) = "{"
  /\ Len(buf) > Len(Pre.buf) + 1
  /\ CountOf(buf, "}") = 0

\* -------------------------------------------------------- scan claims
\* What the scan in res returns when it is run to its end in one go.
ScanResult ==
  CASE res.scan = "find_start_of_closed_expression" ->
         find_start_of_closed_expression(buf, ctx, res.start, ins, tab_char)
    [] res.scan = "find_open_expression_symbol" ->
         find_open_expression_symbol(buf, ctx, res.start, res.until)
    [] res.scan = "find_right_bracket_forward" ->
         find_right_bracket_forward(buf, ctx, res.start)
    [] res.scan = "find_left_bracket_backward" ->
         find_left_bracket_backward(buf, ctx, res.start)
    [] res.scan = "paragraph_down" ->
         [found |-> TRUE,
          pos |-> paragraph_down(buf, get_iter_at_line(buf, get_line_nr(buf, res.start)),
                                 FALSE, FALSE)]
    [] res.scan = "paragraph_up" ->
         [found |-> TRUE,
          pos |-> paragraph_up(buf, backward_pos(get_iter_at_line(buf,
                                 get_line_nr(buf, res.start))), FALSE, FALSE).iter]
    [] OTHER -> [found |-> TRUE, pos |-> Len(buf)]

Unbalanced(b) ==
  \/ CountOf(b, "(") # CountOf(b, ")")
  \/ CountOf(b, "{") # CountOf(b, "}")
  \/ CountOf(b, "[") # CountOf(b, "]")
  \/ CountOf(b, "'") % 2 = 1

\* C15: every scan returns, after at most two tests of a loop condition for
\* each position of the document, with the found or not-found result that the
\* scan has on that document.
C15_ScansTerminate ==
  /\ [](res.steps <= 2 * (Len(buf) + 1))
  /\ [](res.done => (res.found = ScanResult.found
                       /\ (res.found => res.pos = ScanResult.pos)))
  /\ []((res.done /\ res.scan = "find_tab_char_and_size") =>
          res.st = IF is_bracket_language /\ lang # "html"
                     THEN bracket_loop(buf, 0, detect_init)
                   ELSE plain_loop(buf, 0, detect_init))
  /\ <>res.done

\* A bracket search that ran over a whole unbalanced document of full length
\* and returned not found.
C15_Witness ==
  /\ res.scan = "find_right_bracket_forward"
  /\ res.done /\ ~res.found
  /\ Len(buf) = MaxStepLen /\ res.start = 0 /\ res.steps = Len(buf)
  /\ Unbalanced(buf)

\* ------------------------------------------------ Enter without a start
RECURSIVE StripLeft(_)
StripLeft(t) == IF t # <<>> /\ IsBlank(Head(t)) THEN StripLeft(Tail(t)) ELSE t
RECURSIVE StripRight(_)
StripRight(t) ==
  IF t # <<>> /\ IsBlank(t[Len(t)]) THEN StripRight(SubSeq(t, 1, Len(t) - 1)) ELSE t

PreLine == get_line(Pre.buf, get_line_nr(Pre.buf, Pre.ins))
PreHasNextLine == get_line_nr(Pre.buf, Pre.ins) + 1 < get_line_count(Pre.buf)
PreNextLine == get_line(Pre.buf, get_line_nr(Pre.buf, Pre.ins) + 1)
PreBefore == SubSeq(Pre.buf, 1, Pre.ins)
PreAfter == SubSeq(Pre.buf, Pre.ins + 1, Len(Pre.buf))

\* The text after Enter put a newline and the blanks `indent` at the cursor,
\* the blanks around the cursor removed; blanks before the cursor that start
\* the line stay.
EnterInserted(indent) ==
  buf = (IF \A k \in 1..Len(PreLineBefore) : IsBlank(PreLineBefore[k])
           THEN PreBefore ELSE StripRight(PreBefore))
          \o <<NL>> \o indent \o StripLeft(PreAfter)

\* The cursor is followed by nothing but blanks on its line.
PreOnlyBlanksAfter ==
  \A i \in Pre.ins..(PreLineEnd - 1) : IsBlank(CharAt(Pre.buf, i))

\* Enter in a bracket language, in plain text, without a selection and not at
\* the start of a line, and the search for the start of the expression, made
\* after the blanks around the cursor were removed, returns not found.
C16_Case ==
  /\ KeyPressed({Key("Return")})
  /\ is_bracket_language
  /\ Pre.ins = Pre.sel
  /\ ~in_comment_or_string(Pre.ctx, Pre.ins - 1)
  /\ ~starts_line(Pre.buf, Pre.ins)
  /\ LET v == bracket_enter_erase(begin_user_action(PreView))
     IN ~find_start_of_closed_expression(v.buf, v.ctx, v.ins, v.ins, tab_char).found

\* C16 as stated: a newline and a copy of the current line's indentation are
\* inserted.
C16_FallbackCopiesCurrentLine ==
  C16_Case => EnterInserted(LeadingBlanks(PreLine))

\* C16 amended: a newline and a copy of the current line's indentation are
\* inserted, or of the next line's when the cursor is followed by nothing but
\* blanks on its line and the next line's indentation is the longer one; the
\* text gets no brace, semicolon or other character.
C16_FallbackIsBasicEnter ==
  C16_Case =>
    /\ EnterInserted(IF PreHasNextLine /\ PreOnlyBlanksAfter
                          /\ Len(LeadingBlanks(PreNextLine)) > Len(LeadingBlanks(PreLine))
                       THEN LeadingBlanks(PreNextLine)
                     ELSE LeadingBlanks(PreLine))
    /\ NonWhitespace(buf) = NonWhitespace(Pre.buf)

\* Enter before an unopened `)` on an indented line: the start is not found
\* and the line's own indentation is copied.
C16_Witness ==
  /\ C16_Case
  /\ LeadingBlanks(PreLine) # <<>>
  /\ ~PreOnlyBlanksAfter
  /\ EnterInserted(LeadingBlanks(PreLine))

\* ------------------------------------------------------- search claims
SearchCalled(op) == Len(hist) = 1 /\ hist[1].op = op

\* The character at k is one the backward search from pos counts: in plain
\* context, no quote, and an even number of toggling quotes between it and pos.
CountedBefore(b, c, k, pos) == Counted(b, c, k, pos - 1)

CountIn(b, c, lo, hi, pos, ch) ==
  Cardinality({k \in lo..hi : CountedBefore(b, c, k, pos) /\ CharAt(b, k) = ch})

\* The opener at q has no closer of its kind between q and pos: going right
\* from q the closers never outnumber the openers that follow q.
OpenAt(b, c, q, pos, opener, closer) ==
  /\ CountedBefore(b, c, q, pos)
  /\ CharAt(b, q) = opener
  /\ \A k \in q + 1..pos - 1 :
       CountIn(b, c, q + 1, k, pos, closer) <= CountIn(b, c, q + 1, k, pos, opener)

OpenSymbols(b, c, pos, until) ==
  {q \in until..pos - 1 :
     OpenAt(b, c, q, pos, "(", ")") \/ OpenAt(b, c, q, pos, "[", "]")}

\* C17: find_open_expression_symbol(pos, until) with until <= pos returns the
\* open `(` or `[` nearest to pos in until..pos-1, not found when there is
\* none, and never a position before until.
C17_NearestOpenSymbol ==
  SearchCalled("find_open_expression_symbol") =>
    LET pos == hist[1].key.pos
        until == hist[1].key.until
        open == OpenSymbols(buf, ctx, pos, until)
    IN /\ res.found <=> open # {}
       /\ res.found => /\ res.pos \in open
                       /\ \A q \in open : q <= res.pos
                       /\ until <= res.pos /\ res.pos < pos

\* A search bounded by a later until that passed two characters before it
\* found the open symbol.
C17_Witness ==
  /\ SearchCalled("find_open_expression_symbol")
  /\ res.found
  /\ res.pos + 2 < hist[1].key.pos
  /\ hist[1].key.until > 0

\* The quotes between lo and hi that toggle the ignore flag of a search.
QuotesIn(b, c, lo, hi) ==
  {j \in lo..hi :
     ~in_comment_or_string(c, j) /\ CharAt(b, j) = "'" /\ quote_toggles(b, j)}

\* The brace ch at k is one a search started at pos counts.
BraceAt(b, c, k, pos, ch) ==
  /\ ~in_comment_or_string(c, k)
  /\ CharAt(b, k) = ch
  /\ Cardinality(QuotesIn(b, c, Min(k, pos) + 1, Max(k, pos) - 1)) % 2 = 0

\* The nesting level at k relative to pos: the counted braces `up` less the
\* counted braces `down` strictly between the two.
Level(b, c, k, pos, up, down) ==
  Cardinality({j \in Min(k, pos) + 1..Max(k, pos) - 1 : BraceAt(b, c, j, pos, up)})
    - Cardinality({j \in Min(k, pos) + 1..Max(k, pos) - 1 : BraceAt(b, c, j, pos, down)})

\* The closers after pos, and the openers before it, at nesting level zero.
ClosersOf(b, c, pos) ==
  {q \in pos + 1..Len(b) - 1 :
     BraceAt(b, c, q, pos, "}") /\ Level(b, c, q, pos, "{", "}") = 0}
OpenersOf(b, c, pos) ==
  {q \in 0..pos - 1 :
     BraceAt(b, c, q, pos, "{") /\ Level(b, c, q, pos, "}", "{") = 0}

\* What C18 says of a forward search started at pos and of a backward search
\* started at pos.
ForwardFindsCloser(pos) ==
  LET closers == ClosersOf(buf, ctx, pos)
  IN /\ res.found <=> closers # {}
     /\ res.found =>
          /\ res.pos \in closers /\ \A q \in closers : res.pos <= q
          /\ find_left_bracket_backward(buf, ctx, res.pos)
               = [found |-> TRUE, pos |-> pos]
BackwardFindsOpener(pos) ==
  LET openers == OpenersOf(buf, ctx, pos)
  IN /\ res.found <=> openers # {}
     /\ res.found => res.pos \in openers /\ \A q \in openers : q <= res.pos

\* C18 as stated: find_right_bracket_forward started at a `{` returns the
\* first later `}` at nesting level zero, find_left_bracket_backward started
\* at that `}` returns the `{`, and each returns not found when there is no
\* such brace.
C18_MatchingBraces ==
  /\ (SearchCalled("find_right_bracket_forward") /\ CharAt(buf, hist[1].key.pos) = "{")
       => ForwardFindsCloser(hist[1].key.pos)
  /\ (SearchCalled("find_left_bracket_backward") /\ CharAt(buf, hist[1].key.pos) = "}")
       => BackwardFindsOpener(hist[1].key.pos)

\* C18 amended: the same for a `{` in plain context; a backward search from
\* the closer of a `{` in a comment or a string passes that `{`.
C18_MatchingPlainBraces ==
  /\ (/\ SearchCalled("find_right_bracket_forward")
      /\ CharAt(buf, hist[1].key.pos) = "{"
      /\ ~in_comment_or_string(ctx, hist[1].key.pos))
       => ForwardFindsCloser(hist[1].key.pos)
  /\ (SearchCalled("find_left_bracket_backward") /\ CharAt(buf, hist[1].key.pos) = "}")
       => BackwardFindsOpener(hist[1].key.pos)

\* A forward search from a plain `{` that passed a nested pair before it
\* found the closer.
C18_Witness ==
  /\ SearchCalled("find_right_bracket_forward")
  /\ CharAt(buf, hist[1].key.pos) = "{"
  /\ ~in_comment_or_string(ctx, hist[1].key.pos)
  /\ res.found
  /\ res.pos = hist[1].key.pos + 3
  /\ CharAt(buf, hist[1].key.pos + 1) = "{"


\* ------------------------------------------------------- purity claims
\* What the call recorded in hist returns with the cursor at offset cursor.
ResultWithCursorAt(cursor) ==
  CASE hist[1].op = "find_start_of_closed_expression" ->
         find_start_of_closed_expression(buf, ctx, hist[1].key, cursor, tab_char)
    [] hist[1].op = "find_open_expression_symbol" ->
         find_open_expression_symbol(buf, ctx, hist[1].key.pos, hist[1].key.until)
    [] hist[1].op = "find_right_bracket_forward" ->
         find_right_bracket_forward(buf, ctx, hist[1].key.pos)
    [] hist[1].op = "find_left_bracket_backward" ->
         find_left_bracket_backward(buf, ctx, hist[1].key.pos)
    [] OTHER ->
         [found |-> TRUE, pos |-> token_start(buf, hist[1].key.pos, hist[1].key.pos),
          text |-> get_token(buf, hist[1].key.pos)]

CallKeepsView ==
  /\ buf = hist[1].buf /\ ctx = hist[1].ctx
  /\ ins = hist[1].ins /\ sel = hist[1].sel
  /\ depth = 0 /\ log = <<>>

\* C19 as stated: a call returns what it returns with the cursor anywhere
\* else, and leaves the text and the cursor as they were.
C19_ScannersIgnoreCursor ==
  Len(hist) = 1 =>
    /\ \A cursor \in 0..Len(buf) : ResultWithCursorAt(cursor) = res
    /\ CallKeepsView

\* C19 amended: that holds of every routine but find_start_of_closed_expression,
\* which reads the cursor: with the cursor elsewhere it finds or fails alike and
\* returns a position on the same line, a different one only where one of the
\* two calls stopped at its cursor.
C19_OnlyStartOfExpressionReadsCursor ==
  Len(hist) = 1 =>
    /\ \A cursor \in 0..Len(buf) :
         LET r == ResultWithCursorAt(cursor)
         IN IF hist[1].op = "find_start_of_closed_expression"
              THEN /\ r.found = res.found
                   /\ res.found =>
                        /\ get_line_nr(buf, r.pos) = get_line_nr(buf, res.pos)
                        /\ r.pos = res.pos \/ r.pos = cursor \/ res.pos = ins
            ELSE r = res
    /\ CallKeepsView

\* A search for the start of the expression that stopped at the cursor, among
\* the tabs the line starts with.
C19_Witness ==
  /\ SearchCalled("find_start_of_closed_expression")
  /\ res.found /\ res.pos = ins
  /\ \E cursor \in 0..Len(buf) : ResultWithCursorAt(cursor).pos > res.pos

\* ------------------------------------------------------------ basic Enter
\* Enter handled by the basic policy, without a selection, the cursor not at
\* the start of its line.
C20_Case ==
  /\ KeyPressed({Key("Return")})
  /\ Pre.ins = Pre.sel
  /\ ~starts_line(Pre.buf, Pre.ins)
  /\ ~is_bracket_language \/ in_comment_or_string(Pre.ctx, Pre.ins - 1)

Longer(s, t) == IF Len(t) > Len(s) THEN t ELSE s

\* C20 as stated: at any column the new line gets the longer of the current
\* line's and the next line's leading blanks, the current line's when they
\* are equal or there is no next line.
C20_LongerIndentAtAnyColumn ==
  C20_Case =>
    EnterInserted(IF PreHasNextLine
                    THEN Longer(LeadingBlanks(PreLine), LeadingBlanks(PreNextLine))
                  ELSE LeadingBlanks(PreLine))

\* C20 amended: the new line gets the next line's leading blanks when nothing
\* but blanks follows the cursor on its line and they are longer than the
\* blanks that start the line before the cursor, and those otherwise.
C20_LongerIndentAtLineEnd ==
  C20_Case =>
    EnterInserted(IF PreHasNextLine /\ PreOnlyBlanksAfter
                    THEN Longer(LeadingBlanks(PreLineBefore), LeadingBlanks(PreNextLine))
                  ELSE LeadingBlanks(PreLineBefore))

\* Enter in the middle of a line, the next line indented deeper: the current
\* line's blanks are copied.
C20_Witness ==
  /\ C20_Case
  /\ PreHasNextLine /\ ~PreOnlyBlanksAfter
  /\ Pre.ins > PreTextStart
  /\ Len(LeadingBlanks(PreNextLine)) > Len(LeadingBlanks(PreLine))
  /\ LeadingBlanks(PreLine) # <<>>
  /\ EnterInserted(LeadingBlanks(PreLine))

\* -------------------------------------------------------------- basic Tab
PreLineNr == get_line_nr(Pre.buf, Pre.ins)

\* The text is the text before the key with `prefix` put before the lines in
\* `lines` (numbered from 0).
LinesPrefixed(lines, prefix) ==
  /\ get_line_count(buf) = get_line_count(Pre.buf)
  /\ \A n \in 0..get_line_count(Pre.buf) - 1 :
       get_line(buf, n) = IF n \in lines THEN prefix \o get_line(Pre.buf, n)
                          ELSE get_line(Pre.buf, n)

\* The blanks that start the nearest line above (dir = -1) or below (dir = 1)
\* the cursor's that is not empty, none when there is no such line.
NeighbourIndent(dir) ==
  LET lines == {n \in 0..get_line_count(Pre.buf) - 1 :
                  (n - PreLineNr) * dir > 0 /\ get_line(Pre.buf, n) # <<>>}
  IN IF lines = {} THEN <<>>
     ELSE LeadingBlanks(get_line(Pre.buf,
            CHOOSE n \in lines : \A m \in lines : (m - n) * dir >= 0))

TabKeyPressed == KeyPressed({Key("Tab")})
TabOnEmptyLine ==
  /\ TabKeyPressed
  /\ ~get_has_selection(Pre)
  /\ PreLine = <<>>

\* C21 as stated: Tab on an empty line without a selection inserts one unit
\* whatever the neighbouring lines, and Tab with a selection inserts one unit
\* at the start of every touched line.
C21_TabInsertsOneUnit ==
  /\ TabOnEmptyLine => LinesPrefixed({PreLineNr}, tab)
  /\ (TabKeyPressed /\ get_has_selection(Pre)) => LinesPrefixed(TouchedLines, tab)

\* C21 amended: on an empty line, when Tab indents the line and the shorter
\* of the two neighbouring indentations (the lower one's when they are equally
\* long) is at least one unit long, a copy of that indentation is inserted,
\* and one unit otherwise.
C21_TabCopiesNeighbourIndent ==
  /\ TabOnEmptyLine =>
       LET above == NeighbourIndent(-1)
           below == NeighbourIndent(1)
           tabs == IF Len(above) < Len(below) THEN above ELSE below
       IN LinesPrefixed({PreLineNr},
            IF tab_indents_line /\ Len(tabs) >= tab_size THEN tabs ELSE tab)
  /\ (TabKeyPressed /\ get_has_selection(Pre)) => LinesPrefixed(TouchedLines, tab)

\* Tab on an empty line between two lines indented deeper than one unit.
C21_Witness ==
  /\ TabOnEmptyLine
  /\ tab_indents_line
  /\ Len(NeighbourIndent(-1)) > tab_size /\ Len(NeighbourIndent(1)) > tab_size
  /\ PreLineNr > 0
  /\ get_line(buf, PreLineNr) = NeighbourIndent(-1)

\* ---------------------------------------------------------- Shift-Tab
TouchedText == {n \in TouchedLines : get_line(Pre.buf, n) # <<>>}

\* Shift-Tab was pressed and every touched line that is not empty starts
\* with a blank.
C22_Case ==
  /\ KeyPressed({ShiftKey("Tab"), ShiftKey("ISO_Left_Tab")})
  /\ \A n \in TouchedText : LeadingBlanks(get_line(Pre.buf, n)) # <<>>

\* The least number of blanks a touched line that is not empty starts with,
\* and no more than the unit's width.
LeftSteps ==
  CHOOSE k \in 0..tab_size :
    /\ \A n \in TouchedText : k <= Len(LeadingBlanks(get_line(Pre.buf, n)))
    /\ k = tab_size \/ \E n \in TouchedText : k = Len(LeadingBlanks(get_line(Pre.buf, n)))

\* C22: Shift-Tab removes the first k characters, all blanks, of every
\* touched line that is not empty, k the least of the unit's width and of the
\* numbers of blanks those lines start with; the other lines stay as they are.
C22_ShiftTabRemovesLeastIndent ==
  C22_Case =>
    /\ get_line_count(buf) = get_line_count(Pre.buf)
    /\ \A n \in 0..get_line_count(Pre.buf) - 1 :
         LET old == get_line(Pre.buf, n)
         IN IF n \in TouchedText
              THEN /\ get_line(buf, n) = SubSeq(old, LeftSteps + 1, Len(old))
                   /\ \A j \in 1..LeftSteps : IsBlank(old[j])
            ELSE get_line(buf, n) = old

\* Shift-Tab over two lines, one of them indented by less than a unit.
C22_Witness ==
  /\ C22_Case
  /\ Cardinality(TouchedText) >= 2
  /\ LeftSteps > 0 /\ LeftSteps < tab_size
  /\ \E n \in TouchedText : Len(LeadingBlanks(get_line(Pre.buf, n))) > LeftSteps
  /\ Len(buf) = Len(Pre.buf) - LeftSteps * Cardinality(TouchedText)

\* ------------------------------------------------ Enter after an open brace
CLanguages == {"chdr", "cpphdr", "c", "cpp"}
ClassTokens == {<<"c", "l", "a", "s", "s">>, <<"s", "t", "r", "u", "c", "t">>}

\* The start of the statement the cursor is in, as Enter looks for it.
PreStatement ==
  find_start_of_closed_expression(Pre.buf, Pre.ctx, Pre.ins, Pre.ins, tab_char)
PreStatementIndent ==
  get_line_before(Pre.buf, get_tabs_end_iter_at(Pre.buf, PreStatement.pos))

\* The closing brace of the `{` before the cursor, as Enter looks for it.
PreCloser == find_right_bracket_forward(Pre.buf, Pre.ctx, Pre.ins - 1)

\* Enter in a bracket language, in plain text, without a selection, directly
\* after a `{` and not before a `}`, the start of the statement found and no
\* closing brace of the `{` on a line indented as the statement.
C23_Case ==
  /\ KeyPressed({Key("Return")})
  /\ is_bracket_language
  /\ Pre.ins = Pre.sel
  /\ Pre.ctx = AllPlain(Pre.buf)
  /\ Pre.ins > 0
  /\ CharAt(Pre.buf, Pre.ins - 1) = "{"
  /\ (StripLeft(PreAfter) = <<>> \/ Head(StripLeft(PreAfter)) # "}")
  /\ PreStatement.found
  /\ ~(/\ PreCloser.found
       /\ Len(get_line_before(Pre.buf, get_tabs_end_iter_at(Pre.buf, PreCloser.pos)))
            = Len(PreStatementIndent))

\* The block Enter opened: the empty line one unit deeper than T, the cursor
\* at its end, and the closing text on a line indented T.
BlockOpened(T, closing) ==
  /\ buf = PreBefore \o <<NL>> \o T \o tab \o <<NL>> \o T \o closing
             \o StripLeft(PreAfter)
  /\ ins = Pre.ins + 1 + Len(T) + Len(tab)
  /\ sel = ins

\* C23 as stated: the block is closed by `};` exactly when the language is
\* C or C++ and the token at the start of the statement is class or struct.
C23_SemicolonIffClassToken ==
  C23_Case =>
    BlockOpened(PreStatementIndent,
                IF /\ lang \in CLanguages
                   /\ get_token(Pre.buf, PreStatement.pos) \in ClassTokens
                  THEN <<"}", ";">> ELSE <<"}">>)

\* The token that decides on the semicolon: the one at the start of the
\* statement, or, when there is none there and the statement's line is not
\* the first, the one at the start of the statement that ends on the line
\* before, if that start is found.
PreClassToken ==
  LET token == get_token(Pre.buf, PreStatement.pos)
      line_start == get_iter_at_line(Pre.buf, get_line_nr(Pre.buf, PreStatement.pos))
      before == find_start_of_closed_expression(Pre.buf, Pre.ctx, line_start - 1,
                                                Pre.ins, tab_char)
  IN IF token = <<>> /\ line_start > 0 /\ before.found
       THEN get_token(Pre.buf, before.pos)
     ELSE token

\* C23 amended: the block is closed by `};` exactly when the language is C or
\* C++ and the deciding token is class or struct.
C23_SemicolonIffClassTokenOrLineBefore ==
  C23_Case =>
    BlockOpened(PreStatementIndent,
                IF lang \in CLanguages /\ PreClassToken \in ClassTokens
                  THEN <<"}", ";">> ELSE <<"}">>)

\* Enter after a `{` that stands alone on the line after a class head.
C23_Witness ==
  /\ C23_Case
  /\ lang \in CLanguages
  /\ get_token(Pre.buf, PreStatement.pos) = <<>>
  /\ PreClassToken \in ClassTokens
  /\ BlockOpened(PreStatementIndent, <<"}", ";">>)

\* ------------------------------------------- Enter in an open expression
\* The view Enter works on once the blanks around the cursor are removed.
PreErased == bracket_enter_erase(PreView)
ErasedStatement ==
  find_start_of_closed_expression(PreErased.buf, PreErased.ctx, PreErased.ins,
                                  PreErased.ins, tab_char)
ErasedOpen ==
  find_open_expression_symbol(PreErased.buf, PreErased.ctx, PreErased.ins,
                              ErasedStatement.pos)
ErasedLineBefore == get_line_before(PreErased.buf, PreErased.ins)

\* Enter without a selection handled by the bracket policy, the start of the
\* statement found and the cursor not after a `{`.
EnterInStatement ==
  /\ KeyPressed({Key("Return")})
  /\ is_bracket_language
  /\ Pre.ins = Pre.sel
  /\ Pre.ctx = AllPlain(Pre.buf)
  /\ ~starts_line(Pre.buf, Pre.ins)
  /\ ErasedStatement.found
  /\ ~(PreErased.ins > 0 /\ CharAt(PreErased.buf, PreErased.ins - 1) = "{")

C24_Case == EnterInStatement /\ ErasedOpen.found

\* The text is the text without the blanks around the cursor, a newline and
\* `indent` put at the cursor, and the cursor is after `indent`.
NewLineIndented(indent) ==
  /\ buf = SubSeq(PreErased.buf, 1, PreErased.ins) \o <<NL>> \o indent
             \o SubSeq(PreErased.buf, PreErased.ins + 1, Len(PreErased.buf))
  /\ ins = PreErased.ins + 1 + Len(indent)

\* C24: Enter with an open `(` or `[` at column c between the start of the
\* statement and the cursor gives the new line the blanks that start the
\* opener's line, then spaces up to the length c + 1, whatever the line before
\* the cursor starts or ends with.
C24_AlignsPastOpener ==
  C24_Case =>
    LET line_nr == get_line_nr(PreErased.buf, ErasedOpen.pos)
        c == ErasedOpen.pos - get_iter_at_line(PreErased.buf, line_nr)
        blanks == LeadingBlanks(get_line(PreErased.buf, line_nr))
    IN /\ CharAt(PreErased.buf, ErasedOpen.pos) \in {"(", "["}
       /\ Len(blanks) <= c
       /\ NewLineIndented(blanks \o Rep(SP, c + 1 - Len(blanks)))

\* Enter in an open expression of a line that reads as a statement without
\* braces.
C24_Witness ==
  /\ C24_Case
  /\ no_bracket_statement_regex(ErasedLineBefore)
  /\ Len(buf) > Len(Pre.buf) + 2

\* ------------------------------------- Enter and `{` after a statement
\* Every `(` of the line is closed on the line, and every `)`, `]` and `}`
\* of the line closes a `(`, `[` and `{` of the line.
ClosesWithin(line, open, close) ==
  \A k \in 1..Len(line) :
    CountOf(SubSeq(line, 1, k), close) <= CountOf(SubSeq(line, 1, k), open)
ParensClosed(line) ==
  /\ CountOf(line, "(") = CountOf(line, ")")
  /\ ClosesWithin(line, "(", ")")
  /\ ClosesWithin(line, "[", "]")
  /\ ClosesWithin(line, "{", "}")

\* if, for, while or else if with a closed condition and no `{`, `;` or `}`
\* at the end, or else alone.
NoBraceStatement(line) ==
  \/ /\ no_bracket_statement_regex(line)
     /\ ParensClosed(line)
     /\ StripRight(line)[Len(StripRight(line))] \notin {"{", ";", "}"}
  \/ no_bracket_no_para_statement_regex(line)

\* Enter and then `{` were pressed in a bracket language, in plain text,
\* without a selection, the cursor at the end of a line that holds such a
\* statement.
C25_Case ==
  /\ Len(hist) = 2
  /\ hist[1].op = "key" /\ hist[1].key = Key("Return")
  /\ hist[2].op = "key" /\ hist[2].key = Key("{")
  /\ is_bracket_language
  /\ Pre.ins = Pre.sel
  /\ Pre.ctx = AllPlain(Pre.buf)
  /\ Pre.ins = PreLineEnd
  /\ NoBraceStatement(PreLine)

\* C25: Enter at the end of a statement without braces indented T opens a
\* line indented T and one unit, the cursor at its end, and the `{` typed
\* next takes the unit away and stands after T.
C25_BraceAbsorbsUnit ==
  C25_Case =>
    LET T == LeadingBlanks(PreLine)
        head == StripRight(PreBefore) \o <<NL>> \o T
    IN /\ hist[2].buf = head \o tab \o PreAfter
       /\ hist[2].ins = Len(head) + tab_size
       /\ hist[2].sel = hist[2].ins
       /\ buf = head \o <<"{">> \o PreAfter
       /\ ins = Len(head) + 1
       /\ sel = ins

\* The statement was indented and followed by blanks and another line.
C25_Witness ==
  /\ C25_Case
  /\ LeadingBlanks(PreLine) # <<>>
  /\ PreAfter # <<>>
  /\ get_line(buf, PreLineNr + 1) = LeadingBlanks(PreLine) \o <<"{">>

\* ------------------------------------------------------------ typing `}`
\* `}` typed in a bracket language, in plain text, without a selection.
C26_Case ==
  /\ KeyPressed({Key("}")})
  /\ is_bracket_language
  /\ Pre.ins = Pre.sel
  /\ Pre.ctx = AllPlain(Pre.buf)

\* C26: when the line before the cursor is exactly one unit of tab
\* characters the unit is erased and the `}` stands at column 0; when it
\* holds another character the `}` is inserted at the cursor and nothing is
\* erased.
C26_BraceTakesUnit ==
  C26_Case =>
    /\ PreLineBefore = tab =>
         /\ buf = SubSeq(Pre.buf, 1, PreLineStart) \o <<"}">> \o PreAfter
         /\ ins = PreLineStart + 1
    /\ (\E k \in 1..Len(PreLineBefore) : PreLineBefore[k] # tab_char) =>
         /\ buf = PreBefore \o <<"}">> \o PreAfter
         /\ ins = Pre.ins + 1

\* `}` typed after one unit on a line that is not the first.
C26_Witness ==
  /\ C26_Case
  /\ PreLineBefore = tab
  /\ PreLineStart > 0
  /\ Len(buf) = Len(Pre.buf) - tab_size + 1
  /\ CharAt(buf, PreLineStart) = "}"

\* ------------------------------------------- paste on a line of blanks
\* A text without carriage returns was pasted without a selection, the
\* cursor on a line that holds nothing but blanks.
C27_Case ==
  /\ Len(hist) = 1
  /\ hist[1].op = "paste"
  /\ CountOf(hist[1].key, CR) = 0
  /\ Pre.ins = Pre.sel
  /\ \A k \in 1..Len(PreLine) : IsBlank(PreLine[k])

PastedLines == SplitLines(hist[1].key)

\* The number of tab characters a line starts with, and the lines that hold
\* another character.
LeadingRun(line) ==
  Cardinality({k \in 1..Len(line) : \A j \in 1..k : line[j] = tab_char})
NonBlankLine(line) == LeadingRun(line) < Len(line)

\* The common indent: the least leading run of the pasted lines that are not
\* blank, the first line left out when its run is 0.
CommonIndent ==
  LET counted == {n \in 1..Len(PastedLines) :
                    /\ NonBlankLine(PastedLines[n])
                    /\ n = 1 => LeadingRun(PastedLines[n]) # 0}
      runs == {LeadingRun(PastedLines[n]) : n \in counted}
  IN IF runs = {} THEN 0 ELSE CHOOSE m \in runs : \A r \in runs : m <= r

\* The pasted line n as the claim has it inserted: without the shorter of its
\* leading run and the common indent.
Rebased(n) ==
  LET line == PastedLines[n]
      drop == IF LeadingRun(line) < CommonIndent THEN LeadingRun(line)
              ELSE CommonIndent
  IN SubSeq(line, drop + 1, Len(line))

RECURSIVE RebasedFrom(_)
RebasedFrom(n) ==
  IF n > Len(PastedLines) THEN <<>>
  ELSE <<NL>> \o PreLine \o Rebased(n) \o RebasedFrom(n + 1)

\* C27: every pasted line after the first is inserted as a newline, the
\* blanks of the cursor's line and the line without the shorter of its
\* leading run and the common indent, and two pasted lines that are not blank
\* differ in their leading runs after the paste as they did before.
C27_PasteKeepsRelativeIndent ==
  C27_Case =>
    /\ \E k \in 0..Len(PastedLines[1]) :
         buf = PreBefore \o SubSeq(PastedLines[1], k + 1, Len(PastedLines[1]))
                 \o RebasedFrom(2) \o PreAfter
    /\ \A i, j \in 1..Len(PastedLines) :
         (NonBlankLine(PastedLines[i]) /\ NonBlankLine(PastedLines[j])) =>
           LeadingRun(get_line(buf, PreLineNr + j - 1))
               - LeadingRun(get_line(buf, PreLineNr + i - 1))
             = LeadingRun(PastedLines[j]) - LeadingRun(PastedLines[i])

\* -------------------------------------------------------- toggle_comments
C28_Case == Len(hist) = 1 /\ hist[1].op = "toggle_comments"

\* The lines of the range that hold a character that is no blank.
CountedLines ==
  {n \in TouchedLines : StripLeft(get_line(Pre.buf, n)) # <<>>}

StartsWith(t, word) == Len(word) <= Len(t) /\ SubSeq(t, 1, Len(word)) = word

\* Every counted line starts, after its blanks, with the prefix; with the
\* prefix and a space.
AllCommented ==
  \A n \in CountedLines : StartsWith(StripLeft(get_line(Pre.buf, n)), comment_characters)
AllSpaced ==
  \A n \in CountedLines :
    StartsWith(StripLeft(get_line(Pre.buf, n)), comment_characters \o <<SP>>)

\* The least number of blanks a counted line starts with.
MinIndentation ==
  CHOOSE m \in {Len(LeadingBlanks(get_line(Pre.buf, n))) : n \in CountedLines} :
    \A n \in CountedLines : m <= Len(LeadingBlanks(get_line(Pre.buf, n)))

\* C28: toggle_comments removes the prefix, and the space after it when every
\* counted line has one, from every counted line when all of them start with
\* the prefix after their blanks; otherwise it puts the prefix and a space
\* into every counted line at the least indentation of the counted lines;
\* the other lines stay as they are.
C28_ToggleCountedLines ==
  C28_Case =>
    /\ get_line_count(buf) = get_line_count(Pre.buf)
    /\ \A n \in 0..get_line_count(Pre.buf) - 1 :
         LET old == get_line(Pre.buf, n)
             text == StripLeft(old)
             drop == Len(comment_characters) + (IF AllSpaced THEN 1 ELSE 0)
         IN get_line(buf, n) =
              IF n \notin CountedLines THEN old
              ELSE IF AllCommented
                THEN LeadingBlanks(old) \o SubSeq(text, drop + 1, Len(text))
              ELSE SubSeq(old, 1, MinIndentation) \o comment_characters \o <<SP>>
                     \o SubSeq(old, MinIndentation + 1, Len(old))

\* A range of two lines of text around a line of blanks was commented, one
\* of the lines of text indented deeper than the other.
C28_Witness ==
  /\ C28_Case
  /\ Cardinality(CountedLines) >= 2
  /\ TouchedLines # CountedLines
  /\ ~AllCommented
  /\ \E n \in CountedLines : Len(LeadingBlanks(get_line(Pre.buf, n))) > MinIndentation
  /\ Len(buf) = Len(Pre.buf) + 3 * Cardinality(CountedLines)

\* ------------------------------------------------- Tab, then Shift-Tab
\* Tab and then Shift-Tab were pressed, the first with a selection.
C29_Case ==
  /\ Len(hist) = 2
  /\ hist[1].op = "key" /\ hist[1].key = Key("Tab")
  /\ hist[2].op = "key" /\ hist[2].key = ShiftKey("Tab")
  /\ get_has_selection(Pre)
  /\ tab_size >= 1

\* C29: Tab with a selection puts one unit before every touched line, the
\* empty ones too, and the Shift-Tab that follows on the selection as Tab left
\* it gives back the text as it was.
C29_TabThenShiftTabRestores ==
  C29_Case =>
    /\ get_line_count(hist[2].buf) = get_line_count(Pre.buf)
    /\ \A n \in 0..get_line_count(Pre.buf) - 1 :
         get_line(hist[2].buf, n) =
           IF n \in TouchedLines THEN tab \o get_line(Pre.buf, n)
           ELSE get_line(Pre.buf, n)
    /\ buf = Pre.buf

\* The selection touched an empty line and a line that starts with a blank
\* that is not the tab character.
C29_Witness ==
  /\ C29_Case
  /\ \E n \in TouchedLines : get_line(Pre.buf, n) = <<>>
  /\ \E n \in TouchedLines :
       /\ LeadingBlanks(get_line(Pre.buf, n)) # <<>>
       /\ get_line(Pre.buf, n)[1] # tab_char
  /\ buf = Pre.buf
  /\ hist[2].buf # buf

\* -------------------------------------------------------- EntryBox history
\* C30 as stated: every read of a history is inside the vector, Up leaves
\* selected_history at most at the oldest text, Down leaves it at 0 or above,
\* and an activation leaves it at 0.
C30_HistoryReadsInBounds ==
  /\ res.event.read >= 0 => res.event.read < res.event.size
  /\ \A e \in 1..MaxEntries :
       /\ res.entries[e].selected_history >= 0
       /\ Len(EntryHistory(e)) > 0 =>
            res.entries[e].selected_history <= Len(EntryHistory(e)) - 1
  /\ res.event.op = "activate" => res.entries[res.event.entry].selected_history = 0

\* C30 amended: the same, but an activation leaves selected_history at 0 in
\* an entry that has an on_activate callback and as it was in one without.
C30_HistoryReadsInBoundsWithCallback ==
  /\ res.event.read >= 0 => res.event.read < res.event.size
  /\ \A e \in 1..MaxEntries :
       /\ res.entries[e].selected_history >= 0
       /\ Len(EntryHistory(e)) > 0 =>
            res.entries[e].selected_history <= Len(EntryHistory(e)) - 1
  /\ res.event.op = "activate" =>
       res.entries[res.event.entry].selected_history =
         IF res.entries[res.event.entry].on_activate THEN 0 ELSE res.event.before

\* Up in an entry read the oldest text of a history that another entry with
\* the same placeholder text filled.
C30_Witness ==
  /\ res.event.op = "Up"
  /\ res.event.size = MaxHistory
  /\ res.event.read = res.event.size - 1
  /\ res.event.before = res.event.read
  /\ ~res.entries[res.event.entry].on_activate

====
